---- MODULE Spec2Model ----
(***************************************************************************)
(* A state-machine model of the TUV-x C++ core (NCAR/tuv-x-cpp):           *)
(* warehouses, mutable grids, profiles, radiator states, the               *)
(* delta-Eddington solver and the TuvModel driver.                         *)
(*                                                                         *)
(* Numbers.  A C++ double is modelled by an extended rational <<n, d>>:    *)
(* d > 0 and gcd(n, d) = 1 for a finite value, <<0,0>> for NaN, <<1,0>>    *)
(* for +Inf and <<-1,0>> for -Inf.  The arithmetic below follows IEEE-754  *)
(* for the special values (0/0 = NaN, x/0 = +-Inf, 0*Inf = NaN, every      *)
(* comparison with NaN is false) and is exact on finite values, so it      *)
(* leaves out rounding only.  Every zero is +0: the zero divisors of the   *)
(* code modelled here are differences such as 1.0 - 1.0, which are +0.     *)
(***************************************************************************)
EXTENDS Integers, Sequences, FiniteSets, TLC

VARIABLES
    wh,        \* GridWarehouse / ProfileWarehouse: kind -> [items, key_to_index]
    whIssued,  \* every handle Add has returned, with the entity it was issued for
    whRes,     \* result of the last warehouse call
    mg,        \* MutableGrid: [edges, midpoints, deltas]
    mgOp,      \* last MutableGrid call
    pf,        \* Profile / MutableProfile: [kind, mid, edge, layer, burden]
    pfGrid,    \* the grid the cached layer densities were computed on
    pfOp,      \* last profile call
    rs,        \* RadiatorState objects: id -> state
    rsOp,      \* last RadiatorState call, its arguments and whether it threw
    rw,        \* RadiatorWarehouse: the radiators' states, in the order of Add
    rwOp,      \* the most recent call on the RadiatorWarehouse and how it ended
    sv,        \* last SolverInput handed to DeltaEddingtonSolver::Solve
    field,     \* the RadiationField it returned
    tm,        \* TuvModel::config_
    tmRef,     \* config_ of a model given the same constructor and setter calls only
    tmOut,     \* the ModelOutput the last call returned, if it was a Calculate
    tmOp,      \* last TuvModel call
    tmAlbedo,  \* the most recent SetSurfaceAlbedo / SetSurfaceAlbedoSpectrum call
    us,        \* the warehouses' answers to the Get calls of FromCrossSectionRadiator::UpdateState
    usRes,     \* outcome of UpdateState and the radiator's state_
    gd,        \* a Grid object
    gdOp,      \* the last call that assigned or searched it
    ph,        \* a solver input and temperature profile of TuvModel::Calculate
    phRes,     \* the radiation field and the photolysis rates computed from them
    xq,        \* a cross-section or quantum-yield variant with the grid and temperature it is evaluated at
    xqRes,     \* the vector its Calculate returned
    sg,        \* a SphericalGeometry object
    sgRes,     \* the last call on it and what it returned
    mo,        \* the model's photolysis reactions and the ModelOutput of its last Calculate
    moRes      \* last ModelOutput accessor call and its result

whVars == <<wh, whIssued, whRes>>
mgVars == <<mg, mgOp>>
pfVars == <<pf, pfGrid, pfOp>>
rsVars == <<rs, rsOp, rw, rwOp>>
svVars == <<sv, field>>
tmVars == <<tm, tmRef, tmOut, tmOp, tmAlbedo>>
usVars == <<us, usRes>>
gdVars == <<gd, gdOp>>
phVars == <<ph, phRes>>
xqVars == <<xq, xqRes>>
sgVars == <<sg, sgRes>>
moVars == <<mo, moRes>>
vars == <<wh, whIssued, whRes, mg, mgOp, pf, pfGrid, pfOp, rs, rsOp, rw, rwOp, sv, field,
          tm, tmRef, tmOut, tmOp, tmAlbedo,
          us, usRes,
          gd, gdOp,
          ph, phRes,
          xq, xqRes,
          sg, sgRes,
          mo, moRes>>

-----------------------------------------------------------------------------
(* Extended rational arithmetic (the model of double).                     *)

NaN == <<0, 0>>
PInf == <<1, 0>>
NInf == <<-1, 0>>

AbsInt(x) == IF x < 0 THEN -x ELSE x

SgnInt(x) == IF x < 0 THEN -1 ELSE IF x > 0 THEN 1 ELSE 0

RECURSIVE Gcd(_, _)
Gcd(a, b) == IF b = 0 THEN a ELSE Gcd(b, a % b)

\* n/d in lowest terms, d # 0
Norm(n, d) ==
    LET s == IF d < 0 THEN -1 ELSE 1
        g == Gcd(AbsInt(n), AbsInt(d))
    IN  <<(s * n) \div g, (s * d) \div g>>

Q(n, d) == Norm(n, d)

Zero == <<0, 1>>
One == <<1, 1>>
Two == <<2, 1>>
Half == <<1, 2>>

IsNaN(x) == x = NaN
IsInf(x) == x[2] = 0 /\ x[1] # 0
IsFinite(x) == x[2] # 0

QNeg(a) == IF IsNaN(a) THEN NaN ELSE <<-a[1], a[2]>>

QAdd(a, b) ==
    IF IsNaN(a) \/ IsNaN(b) THEN NaN
    ELSE IF IsInf(a) /\ IsInf(b) THEN (IF a = b THEN a ELSE NaN)
    ELSE IF IsInf(a) THEN a
    ELSE IF IsInf(b) THEN b
    ELSE LET c == Gcd(a[2], b[2])   \* over the least common denominator
         IN  Norm(a[1] * (b[2] \div c) + b[1] * (a[2] \div c), (a[2] \div c) * b[2])

QSub(a, b) == QAdd(a, QNeg(b))

QMul(a, b) ==
    IF IsNaN(a) \/ IsNaN(b) THEN NaN
    ELSE IF IsInf(a) \/ IsInf(b)
         THEN (IF a[1] = 0 \/ b[1] = 0 THEN NaN ELSE <<SgnInt(a[1]) * SgnInt(b[1]), 0>>)
    ELSE LET c == Gcd(AbsInt(a[1]), b[2])   \* cancel across before multiplying
             e == Gcd(AbsInt(b[1]), a[2])
         IN  Norm((a[1] \div c) * (b[1] \div e), (a[2] \div e) * (b[2] \div c))

QDiv(a, b) ==
    IF IsNaN(a) \/ IsNaN(b) THEN NaN
    ELSE IF IsInf(a)
         THEN (IF IsInf(b) THEN NaN
               ELSE <<SgnInt(a[1]) * (IF b[1] < 0 THEN -1 ELSE 1), 0>>)
    ELSE IF IsInf(b) THEN Zero
    ELSE IF b[1] = 0 THEN (IF a[1] = 0 THEN NaN ELSE <<SgnInt(a[1]), 0>>)
    ELSE QMul(a, IF b[1] < 0 THEN <<-b[2], -b[1]>> ELSE <<b[2], b[1]>>)

\* a < b as C++ evaluates it: false when either side is NaN
QLess(a, b) ==
    IF IsNaN(a) \/ IsNaN(b) THEN FALSE
    ELSE IF a = b THEN FALSE
    ELSE IF a = NInf \/ b = PInf THEN TRUE
    ELSE IF a = PInf \/ b = NInf THEN FALSE
    ELSE a[1] * b[2] < b[1] * a[2]

QLeq(a, b) == ~IsNaN(a) /\ ~IsNaN(b) /\ (a = b \/ QLess(a, b))

QAbs(a) == <<AbsInt(a[1]), a[2]>>

\* std::clamp(v, lo, hi): lo if v < lo, hi if hi < v, otherwise v (so NaN stays NaN)
Clamp(v, lo, hi) == IF QLess(v, lo) THEN lo ELSE IF QLess(hi, v) THEN hi ELSE v

RECURSIVE SumSeq(_)
SumSeq(s) == IF s = <<>> THEN Zero ELSE QAdd(Head(s), SumSeq(Tail(s)))

-----------------------------------------------------------------------------
(* GridWarehouse and ProfileWarehouse (the two classes have the same code). *)

MaxIssued == 3

\* GridSpec / ProfileSpec values the callers add; two of them share a name
\* and units, and two have a '|' in the name or in the units (name and units
\* are any std::string)
SpecPool ==
    { [name |-> "wavelength", units |-> "nm", n_cells |-> 1],
      [name |-> "wavelength", units |-> "nm", n_cells |-> 2],
      [name |-> "altitude", units |-> "km", n_cells |-> 1],
      [name |-> "time", units |-> "hours", n_cells |-> 1],
      [name |-> "flux", units |-> "W|m2", n_cells |-> 1],
      [name |-> "flux|W", units |-> "m2", n_cells |-> 2] }

WarehouseKinds == {"GridWarehouse", "ProfileWarehouse"}

Key(spec) == spec.name \o "|" \o spec.units

Thrown == [ok |-> FALSE]

Returned(v) == [ok |-> TRUE, value |-> v]

Handle(index) == [index |-> index, valid |-> TRUE]

InvalidHandle == [index |-> 0, valid |-> FALSE]

EmptyWarehouse(kind) == [kind |-> kind, items |-> <<>>, key_to_index |-> <<>>]

HasKey(w, key) == \E i \in 1..Len(w.key_to_index) : w.key_to_index[i][1] = key

IndexOfKey(w, key) ==
    LET i == CHOOSE i \in 1..Len(w.key_to_index) : w.key_to_index[i][1] = key
    IN  w.key_to_index[i][2]

\* Add: the handle returned, or the exception
AddResult(w, e) ==
    IF HasKey(w, Key(e)) THEN Thrown ELSE Returned(Handle(Len(w.items)))

\* Add that overwrites the entity stored under a key already present
AddStateReplacing(w, e) ==
    IF HasKey(w, Key(e)) THEN [w EXCEPT !.items[IndexOfKey(w, Key(e)) + 1] = e]
    ELSE [w EXCEPT !.items = Append(@, e),
                   !.key_to_index = Append(@, <<Key(e), Len(w.items)>>)]

\* Add: the warehouse afterwards
AddState(w, e) ==
    IF HasKey(w, Key(e)) THEN w
    ELSE [w EXCEPT !.items = Append(@, e),
                   !.key_to_index = Append(@, <<Key(e), Len(w.items)>>)]

ClearState(w) == [w EXCEPT !.items = <<>>, !.key_to_index = <<>>]

\* Get(handle)
GetByHandle(w, h) ==
    IF ~h.valid \/ h.index >= Len(w.items) THEN Thrown
    ELSE Returned(w.items[h.index + 1])

\* Get(name, units)
GetByName(w, name, units) ==
    LET key == name \o "|" \o units
    IN  IF ~HasKey(w, key) THEN Thrown ELSE Returned(w.items[IndexOfKey(w, key) + 1])

Exists(w, name, units) == HasKey(w, name \o "|" \o units)

GetHandle(w, name, units) ==
    LET key == name \o "|" \o units
    IN  IF ~HasKey(w, key) THEN InvalidHandle ELSE Handle(IndexOfKey(w, key))

WhInit ==
    /\ wh \in {EmptyWarehouse(k) : k \in WarehouseKinds}
    /\ whIssued = {}
    /\ whRes = [op |-> "new"]

WhAdd(e) ==
    /\ Cardinality(whIssued) < MaxIssued
    /\ wh' = AddState(wh, e)
    /\ whRes' = [op |-> "Add", arg |-> e, result |-> AddResult(wh, e)]
    /\ whIssued' = IF AddResult(wh, e).ok
                   THEN whIssued \cup {[handle |-> AddResult(wh, e).value, entity |-> e]}
                   ELSE whIssued

WhClear ==
    /\ wh' = ClearState(wh)
    /\ whRes' = [op |-> "Clear"]
    /\ UNCHANGED whIssued

WhNext ==
    /\ \/ \E e \in SpecPool : WhAdd(e)
       \/ WhClear
    /\ UNCHANGED <<mgVars, pfVars, rsVars, svVars, tmVars, usVars, gdVars, phVars, xqVars, sgVars, moVars>>

-----------------------------------------------------------------------------
(* MutableGrid.                                                            *)

\* edge values the callers write
EdgeValues == {Zero, One, Two, Q(3, 1)}

\* edge vectors the constructor and SetEdges are called with
EdgeVectors ==
    { <<Zero, One>>, <<Zero, Two>>, <<Zero, One, Two>>, <<Zero, One, Q(3, 1)>>,
      <<Two, One, Zero>> }

\* a mutant of ComputeMidpointsAndDeltas: the midpoint loses its division by two
ComputeMidpointsAndDeltasNoHalf(n_cells, edges) ==
    [midpoints |-> [i \in 1..n_cells |-> QAdd(edges[i], edges[i + 1])],
     deltas |-> [i \in 1..n_cells |-> QSub(edges[i + 1], edges[i])]]

ComputeMidpointsAndDeltas(n_cells, edges) ==
    [midpoints |-> [i \in 1..n_cells |-> QDiv(QAdd(edges[i], edges[i + 1]), Two)],
     deltas |-> [i \in 1..n_cells |-> QSub(edges[i + 1], edges[i])]]

\* MutableGrid(spec, edges) with edges.size() = spec.n_cells + 1
NewMutableGrid(edges) ==
    LET n == Len(edges) - 1
        d == ComputeMidpointsAndDeltas(n, edges)
    IN  [n_cells |-> n, edges |-> edges, midpoints |-> d.midpoints, deltas |-> d.deltas]

Recomputed(g) ==
    LET d == ComputeMidpointsAndDeltas(g.n_cells, g.edges)
    IN  [g EXCEPT !.midpoints = d.midpoints, !.deltas = d.deltas]

MgInit ==
    /\ mg \in {NewMutableGrid(e) : e \in EdgeVectors}
    /\ mgOp = [op |-> "new", threw |-> FALSE]

MgSetEdges(new_edges) ==
    IF Len(new_edges) # Len(mg.edges)
    THEN /\ mgOp' = [op |-> "SetEdges", threw |-> TRUE]
         /\ UNCHANGED mg
    ELSE /\ mg' = Recomputed([mg EXCEPT !.edges = new_edges])
         /\ mgOp' = [op |-> "SetEdges", threw |-> FALSE]

\* index is the zero-based std::size_t argument
MgSetEdge(index, value) ==
    IF index >= Len(mg.edges)
    THEN /\ mgOp' = [op |-> "SetEdge", threw |-> TRUE]
         /\ UNCHANGED mg
    ELSE /\ mg' = [mg EXCEPT !.edges[index + 1] = value]
         /\ mgOp' = [op |-> "SetEdge", threw |-> FALSE]

\* a write MutableEdges()[index] = value, index inside the span
MgMutableEdgesWrite(index, value) ==
    /\ index < Len(mg.edges)
    /\ mg' = [mg EXCEPT !.edges[index + 1] = value]
    /\ mgOp' = [op |-> "MutableEdges", threw |-> FALSE]

MgUpdate ==
    /\ mg' = Recomputed(mg)
    /\ mgOp' = [op |-> "Update", threw |-> FALSE]

MgNext ==
    /\ \/ \E e \in EdgeVectors : MgSetEdges(e)
       \/ \E i \in 0..3, v \in EdgeValues : MgSetEdge(i, v)
       \/ \E i \in 0..2, v \in EdgeValues : MgMutableEdgesWrite(i, v)
       \/ MgUpdate
    /\ UNCHANGED <<whVars, pfVars, rsVars, svVars, tmVars, usVars, gdVars, phVars, xqVars, sgVars, moVars>>

-----------------------------------------------------------------------------
(* Grid (immutable), Profile and MutableProfile.                           *)

GridComputeMidpointsAndDeltas(n_cells, edges) ==
    [midpoints |-> [i \in 1..n_cells |-> QDiv(QAdd(edges[i], edges[i + 1]), Two)],
     deltas |-> [i \in 1..n_cells |-> QSub(edges[i + 1], edges[i])]]

\* Grid(spec, edges) with edges.size() = spec.n_cells + 1
NewGrid(edges) ==
    LET n == Len(edges) - 1
        d == GridComputeMidpointsAndDeltas(n, edges)
    IN  [n_cells |-> n, edges |-> edges, midpoints |-> d.midpoints, deltas |-> d.deltas]

\* the grids the callers pass to CalculateLayerDensities and CalculateBurden
PfGrids == {NewGrid(e) : e \in EdgeVectors}

NoGrid == [n_cells |-> 0, edges |-> <<Zero>>, midpoints |-> <<>>, deltas |-> <<>>]

\* midpoint vectors the constructor and SetMidValues are called with
MidVectors == { <<One>>, <<Two>>, <<One, Two>>, <<Two, One>>, <<Zero, One>> }

\* edge-value vectors the FromEdges constructor and SetEdgeValues are called with
EdgeValueVectors == { <<One, Two>>, <<Zero, One, Two>>, <<Two, Two, Zero>> }

MidValueSet == {Zero, Two}

ThreeHalves == Q(3, 2)

ComputeEdgeValuesFromMidpoints(n_cells, mid) ==
    IF n_cells = 0 THEN <<Zero>>
    ELSE IF n_cells = 1 THEN <<mid[1], mid[1]>>
    ELSE [i \in 1..(n_cells + 1) |->
            IF i = 1 THEN QSub(QMul(ThreeHalves, mid[1]), QMul(Half, mid[2]))
            ELSE IF i = n_cells + 1
                 THEN QSub(QMul(ThreeHalves, mid[n_cells]), QMul(Half, mid[n_cells - 1]))
            ELSE QDiv(QAdd(mid[i - 1], mid[i]), Two)]

ComputeMidValuesFromEdges(n_cells, edge) ==
    [i \in 1..n_cells |-> QDiv(QAdd(edge[i], edge[i + 1]), Two)]

\* the loop of CalculateLayerDensities
LayerDensitiesOf(n_cells, mid, deltas) == [i \in 1..n_cells |-> QMul(mid[i], deltas[i])]

\* the loop of CalculateBurden: burden[n] = 0, burden[i-1] = burden[i] + layer[i-1]
BurdenOf(n_cells, layer) ==
    LET B[i \in 1..(n_cells + 1)] ==
            IF i = n_cells + 1 THEN Zero ELSE QAdd(B[i + 1], layer[i])
    IN  [i \in 1..(n_cells + 1) |-> B[i]]

HasLayerDensities(p) == p.layer # <<>>

HasBurdenDensities(p) == p.burden # <<>>

\* Profile(spec, mid_values) and MutableProfile(spec, mid_values)
ProfileFromMid(kind, mid) ==
    [kind |-> kind, n_cells |-> Len(mid), mid |-> mid,
     edge |-> ComputeEdgeValuesFromMidpoints(Len(mid), mid),
     layer |-> <<>>, burden |-> <<>>]

\* Profile(spec, edge_values, FromEdges) and its MutableProfile counterpart
ProfileFromEdges(kind, edge) ==
    [kind |-> kind, n_cells |-> Len(edge) - 1,
     mid |-> ComputeMidValuesFromEdges(Len(edge) - 1, edge), edge |-> edge,
     layer |-> <<>>, burden |-> <<>>]

\* a mutant of InvalidateDerivedQuantities: the layer densities are kept
InvalidateBurdenOnly(p) == [p EXCEPT !.burden = <<>>]

InvalidateDerivedQuantities(p) == [p EXCEPT !.layer = <<>>, !.burden = <<>>]

\* CalculateLayerDensities(grid), after its size check
WithLayerDensities(p, g) ==
    [p EXCEPT !.layer = LayerDensitiesOf(p.n_cells, p.mid, g.deltas)]

ProfileKinds == {"Profile", "MutableProfile"}

PfInit ==
    /\ pf \in {ProfileFromMid(k, m) : k \in ProfileKinds, m \in MidVectors}
              \cup {ProfileFromEdges(k, e) : k \in ProfileKinds, e \in EdgeValueVectors}
    /\ pfGrid = NoGrid
    /\ pfOp = [op |-> "new", threw |-> FALSE]

PfCalculateLayerDensities(g) ==
    IF g.n_cells # pf.n_cells
    THEN /\ pfOp' = [op |-> "CalculateLayerDensities", threw |-> TRUE]
         /\ UNCHANGED <<pf, pfGrid>>
    ELSE /\ pf' = WithLayerDensities(pf, g)
         /\ pfGrid' = g
         /\ pfOp' = [op |-> "CalculateLayerDensities", threw |-> FALSE]

PfCalculateBurden(g) ==
    IF ~HasLayerDensities(pf) /\ g.n_cells # pf.n_cells
    THEN /\ pfOp' = [op |-> "CalculateBurden", threw |-> TRUE]
         /\ UNCHANGED <<pf, pfGrid>>
    ELSE LET p == IF HasLayerDensities(pf) THEN pf ELSE WithLayerDensities(pf, g)
         IN  /\ pf' = [p EXCEPT !.burden = BurdenOf(p.n_cells, p.layer)]
             /\ pfGrid' = IF HasLayerDensities(pf) THEN pfGrid ELSE g
             /\ pfOp' = [op |-> "CalculateBurden", threw |-> FALSE]

PfSetMidValues(new_values) ==
    /\ pf.kind = "MutableProfile"
    /\ IF Len(new_values) # Len(pf.mid)
       THEN /\ pfOp' = [op |-> "SetMidValues", threw |-> TRUE]
            /\ UNCHANGED <<pf, pfGrid>>
       ELSE /\ pf' = InvalidateDerivedQuantities(
                        [pf EXCEPT !.mid = new_values,
                                   !.edge = ComputeEdgeValuesFromMidpoints(pf.n_cells, new_values)])
            /\ pfOp' = [op |-> "SetMidValues", threw |-> FALSE]
            /\ UNCHANGED pfGrid

\* index is the zero-based std::size_t argument
PfSetMidValue(index, value) ==
    /\ pf.kind = "MutableProfile"
    /\ IF index >= Len(pf.mid)
       THEN /\ pfOp' = [op |-> "SetMidValue", threw |-> TRUE]
            /\ UNCHANGED <<pf, pfGrid>>
       ELSE /\ pf' = [pf EXCEPT !.mid[index + 1] = value]
            /\ pfOp' = [op |-> "SetMidValue", threw |-> FALSE]
            /\ UNCHANGED pfGrid

PfSetEdgeValues(new_values) ==
    /\ pf.kind = "MutableProfile"
    /\ IF Len(new_values) # Len(pf.edge)
       THEN /\ pfOp' = [op |-> "SetEdgeValues", threw |-> TRUE]
            /\ UNCHANGED <<pf, pfGrid>>
       ELSE /\ pf' = InvalidateDerivedQuantities(
                        [pf EXCEPT !.edge = new_values,
                                   !.mid = ComputeMidValuesFromEdges(pf.n_cells, new_values)])
            /\ pfOp' = [op |-> "SetEdgeValues", threw |-> FALSE]
            /\ UNCHANGED pfGrid

PfUpdate ==
    /\ pf.kind = "MutableProfile"
    /\ pf' = InvalidateDerivedQuantities(
                [pf EXCEPT !.edge = ComputeEdgeValuesFromMidpoints(pf.n_cells, pf.mid)])
    /\ pfOp' = [op |-> "Update", threw |-> FALSE]
    /\ UNCHANGED pfGrid

PfUpdateFromEdges ==
    /\ pf.kind = "MutableProfile"
    /\ pf' = InvalidateDerivedQuantities(
                [pf EXCEPT !.mid = ComputeMidValuesFromEdges(pf.n_cells, pf.edge)])
    /\ pfOp' = [op |-> "UpdateFromEdges", threw |-> FALSE]
    /\ UNCHANGED pfGrid

\* MutableProfile(const Profile&): copies the values and the caches
PfMutableFromProfile ==
    /\ pf.kind = "Profile"
    /\ pf' = [pf EXCEPT !.kind = "MutableProfile"]
    /\ pfOp' = [op |-> "MutableProfile", threw |-> FALSE]
    /\ UNCHANGED pfGrid

\* MutableProfile::ToProfile(): Profile(spec_, mid_values_)
PfToProfile ==
    /\ pf.kind = "MutableProfile"
    /\ pf' = ProfileFromMid("Profile", pf.mid)
    /\ pfOp' = [op |-> "ToProfile", threw |-> FALSE]
    /\ UNCHANGED pfGrid

PfNext ==
    /\ \/ \E g \in PfGrids : PfCalculateLayerDensities(g)
       \/ \E g \in PfGrids : PfCalculateBurden(g)
       \/ \E m \in MidVectors : PfSetMidValues(m)
       \/ \E i \in 0..2, v \in MidValueSet : PfSetMidValue(i, v)
       \/ \E e \in EdgeValueVectors : PfSetEdgeValues(e)
       \/ PfUpdate
       \/ PfUpdateFromEdges
       \/ PfMutableFromProfile
       \/ PfToProfile
    /\ UNCHANGED <<whVars, mgVars, rsVars, svVars, tmVars, usVars, gdVars, phVars, xqVars, sgVars, moVars>>

-----------------------------------------------------------------------------
(* RadiatorState.                                                          *)

MaxRsCalls == 2

\* Initialize(n_layers, n_wavelengths): three arrays of zeros
Initialize(n_layers, n_wavelengths) ==
    LET z == [i \in 1..n_layers |-> [j \in 1..n_wavelengths |-> Zero]]
    IN  [optical_depth |-> z, single_scattering_albedo |-> z, asymmetry_factor |-> z]

\* a default-constructed RadiatorState
EmptyState == Initialize(0, 0)

NumberOfLayers(s) == Len(s.optical_depth)

Empty(s) == s.optical_depth = <<>>

NumberOfWavelengths(s) == IF Empty(s) THEN 0 ELSE Len(s.optical_depth[1])

Cell(s, i, j) ==
    [tau |-> s.optical_depth[i][j],
     omega |-> s.single_scattering_albedo[i][j],
     g |-> s.asymmetry_factor[i][j]]

\* the state whose cell (i, j) is c[i][j]
StateOfCells(c) ==
    [optical_depth |-> [i \in 1..Len(c) |-> [j \in 1..Len(c[i]) |-> c[i][j].tau]],
     single_scattering_albedo |-> [i \in 1..Len(c) |-> [j \in 1..Len(c[i]) |-> c[i][j].omega]],
     asymmetry_factor |-> [i \in 1..Len(c) |-> [j \in 1..Len(c[i]) |-> c[i][j].g]]]

\* a mutant of the loop body of Accumulate: omega is averaged without its tau weights
AccumulateCellUnweighted(c1, c2) ==
    LET tau_total == QAdd(c1.tau, c2.tau)
        omega_total == IF QLess(Zero, tau_total)
                       THEN QDiv(QAdd(c1.omega, c2.omega), Two)
                       ELSE Zero
        scatter_tau_1 == QMul(c1.tau, c1.omega)
        scatter_tau_2 == QMul(c2.tau, c2.omega)
        scatter_tau_total == QAdd(scatter_tau_1, scatter_tau_2)
        g_total == IF QLess(Zero, scatter_tau_total)
                   THEN QDiv(QAdd(QMul(scatter_tau_1, c1.g), QMul(scatter_tau_2, c2.g)),
                             scatter_tau_total)
                   ELSE Zero
    IN  [tau |-> tau_total, omega |-> omega_total, g |-> g_total]

\* the loop body of Accumulate for one cell: c1 of the receiver, c2 of the other
AccumulateCell(c1, c2) ==
    LET tau_total == QAdd(c1.tau, c2.tau)
        omega_total == IF QLess(Zero, tau_total)
                       THEN QDiv(QAdd(QMul(c1.tau, c1.omega), QMul(c2.tau, c2.omega)),
                                 tau_total)
                       ELSE Zero
        scatter_tau_1 == QMul(c1.tau, c1.omega)
        scatter_tau_2 == QMul(c2.tau, c2.omega)
        scatter_tau_total == QAdd(scatter_tau_1, scatter_tau_2)
        g_total == IF QLess(Zero, scatter_tau_total)
                   THEN QDiv(QAdd(QMul(scatter_tau_1, c1.g), QMul(scatter_tau_2, c2.g)),
                             scatter_tau_total)
                   ELSE Zero
    IN  [tau |-> tau_total, omega |-> omega_total, g |-> g_total]

\* the shape check of Accumulate
DimensionsDiffer(self, other) ==
    \/ NumberOfLayers(other) # NumberOfLayers(self)
    \/ NumberOfWavelengths(other) # NumberOfWavelengths(self)

\* does self.Accumulate(other) throw
AccumulateThrows(self, other) ==
    ~Empty(other) /\ ~Empty(self) /\ DimensionsDiffer(self, other)

\* a mutant of Accumulate: on a shape mismatch the receiver is overwritten
AccumulateOverwriting(self, other) ==
    IF Empty(other) THEN self
    ELSE IF Empty(self) THEN other
    ELSE IF DimensionsDiffer(self, other) THEN other
    ELSE StateOfCells([i \in 1..NumberOfLayers(self) |->
                         [j \in 1..NumberOfWavelengths(self) |->
                            AccumulateCell(Cell(self, i, j), Cell(other, i, j))]])

\* self after self.Accumulate(other)
Accumulate(self, other) ==
    IF Empty(other) THEN self
    ELSE IF Empty(self) THEN other
    ELSE IF DimensionsDiffer(self, other) THEN self
    ELSE StateOfCells([i \in 1..NumberOfLayers(self) |->
                         [j \in 1..NumberOfWavelengths(self) |->
                            AccumulateCell(Cell(self, i, j), Cell(other, i, j))]])

\* self after self.Scale(factor)
Scale(s, factor) ==
    [s EXCEPT !.optical_depth =
        [i \in 1..Len(s.optical_depth) |->
            [j \in 1..Len(s.optical_depth[i]) |-> QMul(s.optical_depth[i][j], factor)]]]

\* cells with tau >= 0, omega in [0,1], g in [-1,1]
ValidCells ==
    { [tau |-> t, omega |-> og[1], g |-> og[2]] :
        t \in {Zero, One, Two},
        og \in { <<Zero, Zero>>, <<One, Zero>>, <<Half, Half>>, <<One, QNeg(One)>>,
                 <<Half, One>> } }

\* the states the callers hold: empty, [1][0], [1][1], [1][2] and [2][1]
StateInputs ==
    {EmptyState, Initialize(1, 0)}
      \cup {StateOfCells(<<<<c>>>>) : c \in ValidCells}
      \cup {StateOfCells(<<<<c, d>>>>) :
              c \in {[tau |-> One, omega |-> One, g |-> Zero]},
              d \in {[tau |-> Two, omega |-> Half, g |-> Half],
                     [tau |-> Zero, omega |-> Zero, g |-> Zero]}}
      \cup {StateOfCells(<<<<c>>, <<d>>>>) :
              c \in {[tau |-> One, omega |-> Zero, g |-> Zero]},
              d \in {[tau |-> Two, omega |-> One, g |-> Zero],
                     [tau |-> One, omega |-> Half, g |-> One]}}

RsIds == {"A", "B"}

\* the factors Scale is called with; Scale takes any double
ScaleFactors == {Zero, Half, Two, QNeg(One)}

RsInit ==
    /\ rs \in [RsIds -> StateInputs]
    /\ rsOp = [op |-> "new", target |-> "A", prev |-> EmptyState, other |-> EmptyState,
               threw |-> FALSE, calls |-> 0]

\* rs[a].Accumulate(rs[b])
RsAccumulate(a, b) ==
    /\ a # b
    /\ rsOp.calls < MaxRsCalls
    /\ rs' = [rs EXCEPT ![a] = Accumulate(rs[a], rs[b])]
    /\ rsOp' = [op |-> "Accumulate", target |-> a, prev |-> rs[a], other |-> rs[b],
                threw |-> AccumulateThrows(rs[a], rs[b]), calls |-> rsOp.calls + 1]

\* rs[a].Scale(factor)
RsScale(a, factor) ==
    /\ rsOp.calls < MaxRsCalls
    /\ rs' = [rs EXCEPT ![a] = Scale(rs[a], factor)]
    /\ rsOp' = [op |-> "Scale", target |-> a, prev |-> rs[a], other |-> EmptyState,
                threw |-> FALSE, calls |-> rsOp.calls + 1]

RsNext ==
    /\ \/ \E a, b \in RsIds : RsAccumulate(a, b)
       \/ \E a \in RsIds, f \in ScaleFactors : RsScale(a, f)
    /\ UNCHANGED <<rw, rwOp, whVars, mgVars, pfVars, svVars, tmVars, usVars, gdVars, phVars, xqVars, sgVars, moVars>>

-----------------------------------------------------------------------------
(* RadiatorWarehouse.  A radiator is [name, state]; what UpdateState      *)
(* computes from the grids and profiles is drawn from RwStates.            *)

MaxRadiators == 3

RadiatorNames == {"O3", "O2", "rayleigh", "aerosol"}

\* the states UpdateState leaves in a radiator: shape [1][1], valid cells (an
\* absorber, a conservative scatterer, an aerosol, a scatterer of zero depth)
RwStates ==
    { StateOfCells(<<<<c>>>>) :
        c \in { [tau |-> One, omega |-> Zero, g |-> Zero],
                [tau |-> Two, omega |-> One, g |-> Zero],
                [tau |-> One, omega |-> Half, g |-> Half],
                [tau |-> Zero, omega |-> One, g |-> Zero] } }

RECURSIVE CombinedStateOf(_)
\* the loop of CombinedState over the radiators' states, last radiator last
CombinedStateOf(states) ==
    IF states = <<>> THEN EmptyState
    ELSE LET n == Len(states)
             combined == CombinedStateOf(SubSeq(states, 1, n - 1))
         IN  IF ~Empty(states[n]) THEN Accumulate(combined, states[n]) ELSE combined

StatesOf(radiators) == [i \in 1..Len(radiators) |-> radiators[i].state]

\* RadiatorWarehouse::CombinedState()
CombinedState(radiators) == CombinedStateOf(StatesOf(radiators))

RwExists(radiators, name) == \E i \in 1..Len(radiators) : radiators[i].name = name

RwInit ==
    /\ rw = <<>>
    /\ rwOp = [op |-> "new", outcome |-> "returned"]

\* Add(radiator): throws on a name already present; a radiator that has not
\* been updated yet has an empty state
RwAdd(name) ==
    /\ Len(rw) < MaxRadiators
    /\ rw' = IF RwExists(rw, name) THEN rw
             ELSE Append(rw, [name |-> name, state |-> EmptyState])
    /\ rwOp' = [op |-> "Add",
                outcome |-> IF RwExists(rw, name) THEN "threw" ELSE "returned"]

\* the radiators whose UpdateState ran to its end: those before the first
\* one that throws
UpdatedBeforeThrow(updates) ==
    { i \in DOMAIN updates : \A k \in 1..i : updates[k].ok }

\* UpdateAll(grids, profiles): updates[i] is what radiator i's UpdateState
\* does with these warehouses, Returned(state) or Thrown (a key it asks for
\* is absent); the exception leaves the loop
RwUpdateAll(updates) ==
    /\ rw' = [i \in 1..Len(rw) |->
                IF i \in UpdatedBeforeThrow(updates)
                THEN [rw[i] EXCEPT !.state = updates[i].value] ELSE rw[i]]
    /\ rwOp' = [op |-> "UpdateAll",
                outcome |-> IF \A i \in DOMAIN updates : updates[i].ok
                            THEN "returned" ELSE "threw"]

RwClear ==
    /\ rw' = <<>>
    /\ rwOp' = [op |-> "Clear", outcome |-> "returned"]

\* what one radiator's UpdateState does
RwUpdates == {Thrown} \cup {Returned(state) : state \in RwStates}

RwNext ==
    /\ \/ \E name \in RadiatorNames : RwAdd(name)
       \/ \E updates \in [1..Len(rw) -> RwUpdates] : RwUpdateAll(updates)
       \/ RwClear
    /\ UNCHANGED <<rs, rsOp, whVars, mgVars, pfVars, svVars, tmVars, usVars, gdVars, phVars, xqVars, sgVars, moVars>>

-----------------------------------------------------------------------------
(* DeltaEddingtonSolver.  Model level L is the code's level L - 1 (level 1 *)
(* is the surface) and model layer k is the code's layer k - 1 (between    *)
(* levels k and k + 1).                                                    *)
(*                                                                         *)
(* std::exp is modelled by x |-> 2^x on integer x: the change of base      *)
(* keeps exp(0) = 1, exp(a + b) = exp(a) exp(b), positivity and            *)
(* monotonicity, and stays rational.                                       *)
(* std::sqrt is taken on squares of rationals.  The inputs below are       *)
(* chosen so that every exponent is an integer and every radicand a        *)
(* square; TLC stops with an error on any other argument.                  *)

Nullptr == <<>>

PointerTo(v) == <<v>>

RECURSIVE Pow2(_)
Pow2(n) == IF n = 0 THEN 1 ELSE 2 * Pow2(n - 1)

\* the exponent below which the result is less than half the smallest
\* subnormal double, 2^-1074, and rounds to zero
ExpUnderflow == Q(-1075, 1)

\* std::exp
ExpOf(x) ==
    CASE IsNaN(x) -> NaN
      [] x = PInf -> PInf
      [] x = NInf -> Zero
      [] IsFinite(x) /\ QLess(x, ExpUnderflow) -> Zero
      [] IsFinite(x) /\ x[2] = 1 /\ x[1] >= 0 -> <<Pow2(x[1]), 1>>
      [] IsFinite(x) /\ x[2] = 1 /\ x[1] < 0 -> <<1, Pow2(-x[1])>>

IsSquare(n) == \E k \in 0..n : k * k = n

ISqrt(n) == CHOOSE k \in 0..n : k * k = n

\* std::sqrt
SqrtOf(x) ==
    CASE IsNaN(x) -> NaN
      [] x = PInf -> PInf
      [] x = NInf -> NaN
      [] IsFinite(x) /\ x[1] < 0 -> NaN
      [] IsFinite(x) /\ x[1] >= 0 /\ IsSquare(x[1]) /\ IsSquare(x[2]) ->
            <<ISqrt(x[1]), ISqrt(x[2])>>

\* x < 1e-10: every positive value of the model is at least 2^-31 > 1e-10
BelowThreshold(x) == QLess(x, Zero) \/ x = Zero

\* x / 1e-30, the floor of the denominator; a nonzero x leaves the range of
\* the model and is taken as the infinity of its sign
OverDenomFloor(x) ==
    IF IsNaN(x) THEN NaN ELSE IF x[1] = 0 THEN Zero ELSE <<SgnInt(x[1]), 0>>

\* SolverInput::mu0(): cos of the zenith angle in degrees, for the angles used.
\* 90 * kDegreesToRadians is the double nearest to pi / 2 and its std::cos is
\* 6.1e-17, not 0: the model takes 2^-11 for it, a positive value small enough
\* for exp(-tau / mu0) to underflow at every tau > 0 of the model
Mu0(solar_zenith_angle) ==
    CASE solar_zenith_angle = 0 -> One
      [] solar_zenith_angle = 90 -> Q(1, 2048)
      [] solar_zenith_angle = 60 -> Half
      [] solar_zenith_angle = 120 -> QNeg(Half)
      [] solar_zenith_angle = 180 -> QNeg(One)
      [] solar_zenith_angle = -60 -> Half
      [] solar_zenith_angle = 240 -> QNeg(Half)

DeltaScale(tau, omega, g) ==
    LET f == QMul(g, g)
        tau_scaled == QMul(tau, QSub(One, QMul(omega, f)))
        omega_scaled == QDiv(QMul(omega, QSub(One, f)), QSub(One, QMul(omega, f)))
        g_scaled == QDiv(QSub(g, f), QSub(One, f))
    IN  [tau |-> tau_scaled,
         omega |-> Clamp(omega_scaled, Zero, One),
         g |-> Clamp(g_scaled, QNeg(One), One)]

\* the end of the first pass for one layer: r and t from Gamma and exp(-lambda tau)
LayerReflectanceTransmittance(Gamma, exp_minus) ==
    LET denom == QSub(One, QMul(QMul(QMul(Gamma, Gamma), exp_minus), exp_minus))
        r_num == QMul(Gamma, QSub(One, QMul(exp_minus, exp_minus)))
        t_num == QMul(QSub(One, QMul(Gamma, Gamma)), exp_minus)
    IN  IF denom = Zero
        THEN [r |-> OverDenomFloor(r_num), t |-> OverDenomFloor(t_num)]
        ELSE [r |-> QDiv(r_num, denom), t |-> QDiv(t_num, denom)]

\* Gamma = gamma2 / (gamma1 + lambda) and exp_minus = exp(-lambda tau)
LayerFromLambda(gamma1, gamma2, lambda, tau) ==
    LayerReflectanceTransmittance(QDiv(gamma2, QAdd(gamma1, lambda)),
                                  ExpOf(QNeg(QMul(lambda, tau))))

\* lambda = sqrt(gamma1^2 - gamma2^2)
LayerFromGammas(gamma1, gamma2, tau) ==
    LayerFromLambda(gamma1, gamma2,
                    SqrtOf(QSub(QMul(gamma1, gamma1), QMul(gamma2, gamma2))), tau)

\* the first pass of SolveTwoStream for one layer: reflectance r, transmittance t
LayerProperties(s, mu0) ==
    IF BelowThreshold(s.tau) \/ BelowThreshold(s.omega)
    THEN [r |-> Zero, t |-> ExpOf(QDiv(QNeg(s.tau), mu0))]
    ELSE LayerFromGammas(
             QDiv(QSub(Q(7, 1), QMul(s.omega, QAdd(Q(4, 1), QMul(Q(3, 1), s.g)))), Q(4, 1)),
             QNeg(QDiv(QSub(One, QMul(s.omega, QSub(Q(4, 1), QMul(Q(3, 1), s.g)))), Q(4, 1))),
             s.tau)

\* F(v), with v computed once as a local variable of the code is: TLC evaluates
\* operator arguments and LET definitions lazily and keeps none of the values
\* it computes inside a function application, while a bound variable holds one
ByValue(v, F(_)) == CHOOSE r \in {F(x) : x \in {v}} : TRUE

RECURSIVE BeamBelow(_, _)
\* the Beer-Lambert loop from the top level down: levels holds the levels
\* already written, and each level below is the one above times trans
BeamBelow(levels, trans) ==
    IF Len(levels) = Len(trans) + 1 THEN levels
    ELSE BeamBelow(<<QMul(levels[1], trans[Len(trans) + 1 - Len(levels)])>> \o levels, trans)

\* a direct beam attenuated along the vertical whatever the slant factors
DirectBeamVertical(s, mu0, flux_toa, slant_factors) ==
    ByValue([k \in 1..Len(s) |-> ExpOf(QNeg(s[k].tau))],
            LAMBDA trans : [direct |-> BeamBelow(<<QMul(flux_toa, mu0)>>, trans),
                            actinic_direct |-> BeamBelow(<<flux_toa>>, trans)])

\* the direct beam of SolveTwoStream
DirectBeam(s, mu0, flux_toa, slant_factors) ==
    ByValue([k \in 1..Len(s) |-> ExpOf(QNeg(QMul(s[k].tau, slant_factors[k])))],
            LAMBDA trans : [direct |-> BeamBelow(<<QMul(flux_toa, mu0)>>, trans),
                            actinic_direct |-> BeamBelow(<<flux_toa>>, trans)])

\* the last loop of SolveTwoStream: the diffuse actinic flux at every level
WithActinicDiffuse(beam, diffuse_down, diffuse_up) ==
    [direct |-> beam.direct,
     diffuse_down |-> diffuse_down,
     diffuse_up |-> diffuse_up,
     actinic_direct |-> beam.actinic_direct,
     actinic_diffuse |-> [L \in 1..Len(diffuse_up) |->
                            QMul(Two, QAdd(diffuse_up[L], diffuse_down[L]))]]

\* the single-scattering loop's writes to diffuse_up, and the surface
\* reflection recalculated after it
DiffuseUp(s, beam, up_first, scatter_source, diffuse_down, mu0, albedo) ==
    [L \in 1..(Len(s) + 1) |->
        IF L = 1 THEN QMul(albedo, QAdd(QDiv(beam.direct[1], mu0), diffuse_down[1]))
        ELSE QAdd(up_first[L], QMul(QMul(Half, scatter_source[L - 1]), QAdd(One, s[L - 1].g)))]

\* the single-scattering loop's writes to diffuse_down
DiffuseDown(s, beam, up_first, scatter_source, mu0, albedo) ==
    ByValue([L \in 1..(Len(s) + 1) |->
                IF L = Len(s) + 1 THEN Zero
                ELSE QAdd(Zero, QMul(QMul(Half, scatter_source[L]), QSub(One, s[L].g)))],
            LAMBDA diffuse_down :
                WithActinicDiffuse(beam, diffuse_down,
                    DiffuseUp(s, beam, up_first, scatter_source, diffuse_down, mu0, albedo)))

\* the single-scattering pass of SolveTwoStream on the upward flux up_first
SingleScattering(s, beam, up_first, mu0, albedo) ==
    ByValue([k \in 1..Len(s) |->
                QMul(QMul(s[k].omega,
                          QDiv(QMul(Half, QAdd(beam.direct[k], beam.direct[k + 1])), mu0)),
                     s[k].tau)],
            LAMBDA scatter_source : DiffuseDown(s, beam, up_first, scatter_source, mu0, albedo))

RECURSIVE UpwardAbove(_, _)
\* the loop that propagates diffuse_up from the surface: levels holds the
\* levels already written; diffuse_down is still zero there
UpwardAbove(levels, lp) ==
    IF Len(levels) = Len(lp) + 1 THEN levels
    ELSE UpwardAbove(Append(levels, QAdd(QMul(levels[Len(levels)], lp[Len(levels)].t),
                                         QMul(lp[Len(levels)].r, Zero))),
                     lp)

\* the first pass and the upward pass of SolveTwoStream
UpwardPass(s, beam, mu0, albedo) ==
    ByValue(UpwardAbove(<<QMul(albedo, QAdd(beam.direct[1], Zero))>>,
                        [k \in 1..Len(s) |-> LayerProperties(s[k], mu0)]),
            LAMBDA up_first : SingleScattering(s, beam, up_first, mu0, albedo))

\* SolveTwoStream after the delta-scaling of every layer
SolveScaled(s, mu0, albedo, flux_toa, slant_factors) ==
    ByValue(DirectBeam(s, mu0, flux_toa, slant_factors),
            LAMBDA beam : UpwardPass(s, beam, mu0, albedo))

\* SolveTwoStream for one wavelength; tau, omega, g and slant_factors are per
\* layer.  tau_cumulative and src are written by the code and never read, so
\* they have no counterpart here.
SolveTwoStream(tau, omega, g, mu0, albedo, flux_toa, slant_factors) ==
    ByValue([k \in 1..Len(tau) |-> DeltaScale(tau[k], omega[k], g[k])],
            LAMBDA s : SolveScaled(s, mu0, albedo, flux_toa, slant_factors))

\* RadiationField::Initialize(n_levels, n_wavelengths)
FieldInitialize(n_levels, n_wavelengths) ==
    LET z == [i \in 1..n_levels |-> [j \in 1..n_wavelengths |-> Zero]]
    IN  [direct_irradiance |-> z, diffuse_up |-> z, diffuse_down |-> z,
         actinic_flux_direct |-> z, actinic_flux_diffuse |-> z]

\* RadiationField{}
EmptyField == FieldInitialize(0, 0)

\* element j (1-based) of an optional vector, or the default
ElementOr(pointer, j, default) ==
    IF pointer # Nullptr /\ j <= Len(pointer[1]) THEN pointer[1][j] ELSE default

\* the RadiationField Solve fills from the per-wavelength results
FieldOf(result, n_levels, n_wavelengths) ==
    [direct_irradiance |->
        [i \in 1..n_levels |-> [j \in 1..n_wavelengths |-> result[j].direct[i]]],
     diffuse_up |->
        [i \in 1..n_levels |-> [j \in 1..n_wavelengths |-> result[j].diffuse_up[i]]],
     diffuse_down |->
        [i \in 1..n_levels |-> [j \in 1..n_wavelengths |-> result[j].diffuse_down[i]]],
     actinic_flux_direct |->
        [i \in 1..n_levels |-> [j \in 1..n_wavelengths |-> result[j].actinic_direct[i]]],
     actinic_flux_diffuse |->
        [i \in 1..n_levels |-> [j \in 1..n_wavelengths |-> result[j].actinic_diffuse[i]]]]

\* the wavelength loop of Solve on a non-empty state by day
SolveWavelengths(input, state, mu0) ==
    ByValue([j \in 1..NumberOfWavelengths(state) |->
                SolveTwoStream([i \in 1..NumberOfLayers(state) |-> state.optical_depth[i][j]],
                               [i \in 1..NumberOfLayers(state) |->
                                   state.single_scattering_albedo[i][j]],
                               [i \in 1..NumberOfLayers(state) |-> state.asymmetry_factor[i][j]],
                               mu0,
                               ElementOr(input.surface_albedo, j, Zero),
                               ElementOr(input.extraterrestrial_flux, j, One),
                               IF input.geometry # Nullptr THEN input.geometry[1]
                               ELSE [k \in 1..NumberOfLayers(state) |-> QDiv(One, mu0)])],
            LAMBDA result :
                FieldOf(result, NumberOfLayers(state) + 1, NumberOfWavelengths(state)))

\* DeltaEddingtonSolver::Solve
Solve(input) ==
    IF input.radiator_state = Nullptr \/ Empty(input.radiator_state[1]) THEN EmptyField
    ELSE IF QLeq(Mu0(input.solar_zenith_angle), Zero)
         THEN FieldInitialize(NumberOfLayers(input.radiator_state[1]) + 1,
                              NumberOfWavelengths(input.radiator_state[1]))
         ELSE SolveWavelengths(input, input.radiator_state[1], Mu0(input.solar_zenith_angle))

\* cells with tau >= 0, omega in [0,1], g in [-1,1], boundary values included
SolverCells ==
    { [tau |-> t, omega |-> og[1], g |-> og[2]] :
        t \in {Zero, Two},
        og \in { <<Zero, Zero>>, <<One, Zero>>, <<Q(2, 3), Zero>>, <<Zero, One>>,
                 <<Half, One>>, <<One, One>>, <<One, QNeg(One)>>, <<Half, QNeg(One)>>,
                 <<Zero, QNeg(One)>>, <<Zero, Half>> } }

\* the combined states handed to the solver: empty, one layer, two layers
\* (among them pure absorbers of the same total optical depth), and one layer
\* with two wavelengths
SolverStates ==
    {EmptyState}
      \cup {StateOfCells(<<<<c>>>>) : c \in SolverCells}
      \cup {StateOfCells(<<<<c>>, <<d>>>>) :
              c \in {[tau |-> Two, omega |-> Zero, g |-> Zero],
                     [tau |-> Two, omega |-> Q(2, 3), g |-> Zero]},
              d \in {[tau |-> Two, omega |-> One, g |-> Zero],
                     [tau |-> Two, omega |-> Half, g |-> QNeg(One)],
                     [tau |-> Zero, omega |-> Zero, g |-> Zero]}}
      \cup {StateOfCells(<<<<[tau |-> t[1], omega |-> Zero, g |-> Zero]>>,
                           <<[tau |-> t[2], omega |-> Zero, g |-> Half]>>>>) :
              t \in { <<One, One>>, <<Zero, Two>> }}
      \cup {StateOfCells(<<<<c, d>>>>) :
              c \in {[tau |-> Two, omega |-> Zero, g |-> Zero]},
              d \in {[tau |-> Two, omega |-> Q(2, 3), g |-> Zero],
                     [tau |-> Zero, omega |-> One, g |-> Zero]}}

SolverInput(state, geometry, surface_albedo, extraterrestrial_flux, solar_zenith_angle) ==
    [radiator_state |-> state, geometry |-> geometry, surface_albedo |-> surface_albedo,
     extraterrestrial_flux |-> extraterrestrial_flux,
     solar_zenith_angle |-> solar_zenith_angle]

\* (surface albedo, extraterrestrial flux) pairs, one value per wavelength
Boundaries ==
    { <<PointerTo(<<Zero>>), PointerTo(<<One>>)>>,
      <<PointerTo(<<Half>>), PointerTo(<<One>>)>>,
      <<PointerTo(<<One>>), PointerTo(<<Two>>)>> }

\* the inputs Solve is called with: every cell by day; night; missing state,
\* albedo or flux and vectors shorter than the wavelength grid; several layers,
\* with and without a SlantPathResult whose enhancement factor is 2
SolverInputs ==
    { SolverInput(PointerTo(StateOfCells(<<<<c>>>>)), Nullptr, b[1], b[2], z) :
        c \in SolverCells, b \in Boundaries, z \in {0, 60} }
      \cup { SolverInput(PointerTo(st), Nullptr, PointerTo(<<Half>>), PointerTo(<<One>>), z) :
                st \in SolverStates, z \in {120, 180} }
      \cup { SolverInput(p, Nullptr, a, f, 0) :
                p \in {Nullptr, PointerTo(EmptyState),
                       PointerTo(StateOfCells(<<<<[tau |-> Two, omega |-> Zero, g |-> Zero],
                                                  [tau |-> Two, omega |-> Q(2, 3), g |-> Zero]>>>>))},
                a \in {Nullptr, PointerTo(<<>>), PointerTo(<<Half>>), PointerTo(<<Half, One>>)},
                f \in {Nullptr, PointerTo(<<Zero>>), PointerTo(<<Two>>), PointerTo(<<Two, One>>)} }
      \cup { SolverInput(PointerTo(st), geo, PointerTo(<<a>>), PointerTo(<<One>>), z) :
                st \in {x \in SolverStates : NumberOfLayers(x) = 2},
                geo \in {Nullptr, PointerTo(<<Two, Two>>)},
                a \in {Zero, One}, z \in {0, 60} }

DefaultSolverInput ==
    [radiator_state |-> Nullptr, geometry |-> Nullptr, surface_albedo |-> Nullptr,
     extraterrestrial_flux |-> Nullptr, solar_zenith_angle |-> 0]

SvInit ==
    /\ sv = DefaultSolverInput
    /\ field = EmptyField

\* field = solver.Solve(input)
SvSolve(input) ==
    /\ sv' = input
    /\ field' = Solve(input)

SvNext ==
    /\ \E input \in SolverInputs : SvSolve(input)
    /\ UNCHANGED <<whVars, mgVars, pfVars, rsVars, tmVars, usVars, gdVars, phVars, xqVars, sgVars, moVars>>

-----------------------------------------------------------------------------
(* TuvModel.  The model is built on one altitude layer and two wavelength  *)
(* bins, with plane-parallel geometry (use_spherical_geometry = false) and *)
(* no photolysis reaction.  The reference spectrum is the unit of flux.    *)

TmLayers == 1

TmWavelengths == 2

\* solar::DayOfYear
DayOfYear(year, month, day) ==
    LET days_in_month == <<31, 28, 31, 30, 31, 30, 31, 31, 30, 31, 30, 31>>
        Before[m \in 1..12] == IF m = 1 THEN 0 ELSE Before[m - 1] + days_in_month[m - 1]
        is_leap == (year % 4 = 0 /\ year % 100 # 0) \/ (year % 400 = 0)
    IN  Before[month] + day + (IF is_leap /\ month > 2 THEN 1 ELSE 0)

\* the instants Calculate(year, month, day, hour, latitude, longitude) is called with
Instants ==
    { [year |-> 2024, month |-> 1, day |-> 1, hour |-> 12, latitude |-> 37, longitude |-> 0],
      [year |-> 2023, month |-> 3, day |-> 21, hour |-> 0, latitude |-> 60, longitude |-> 0],
      [year |-> 2023, month |-> 7, day |-> 2, hour |-> 0, latitude |-> 37, longitude |-> 0] }

\* solar::CalculateSolarPosition(...).zenith_angle at the instants above, to the
\* nearest degree (60.0215, 119.9347, 119.9259)
ZenithAngleAt(t) == IF t.hour = 12 THEN 60 ELSE 120

\* ModelConfig::EffectiveEarthSunDistance; the cosine formula is tabulated at
\* the days used, to the nearest 1/64 (0.98327, 0.99650, 1.01673)
EffectiveEarthSunDistance(config) ==
    IF QLess(Zero, config.earth_sun_distance) THEN config.earth_sun_distance
    ELSE CASE config.day_of_year = 1 -> Q(63, 64)
           [] config.day_of_year = 80 -> One
           [] config.day_of_year = 183 -> Q(65, 64)

\* ModelConfig{} with the fields the callers set before construction
ModelConfig(day_of_year, earth_sun_distance) ==
    [solar_zenith_angle |-> 0, day_of_year |-> day_of_year,
     earth_sun_distance |-> earth_sun_distance, latitude |-> 0, longitude |-> 0,
     surface_albedo |-> Q(1, 10), surface_albedo_spectrum |-> <<>>,
     temperature_profile |-> <<>>, air_density_profile |-> <<>>,
     ozone_profile |-> <<>>, use_spherical_geometry |-> FALSE]

TmConfigs == {ModelConfig(1, QNeg(One)), ModelConfig(183, QNeg(One)), ModelConfig(1, One)}

TmRadiatorNames == {"O3", "rayleigh"}

\* what UpdateState leaves in the named radiator for the model's grids and
\* profiles: O3 absorbs in the first bin in proportion to the ozone density,
\* O2 in the second, air scatters in both
RadiatorStateOf(name, ozone) ==
    CASE name = "O3" ->
           StateOfCells(<<<<[tau |-> ozone[1], omega |-> Zero, g |-> Zero],
                            [tau |-> Zero, omega |-> Zero, g |-> Zero]>>>>)
      [] name = "O2" ->
           StateOfCells(<<<<[tau |-> Zero, omega |-> Zero, g |-> Zero],
                            [tau |-> One, omega |-> Zero, g |-> Zero]>>>>)
      [] name = "rayleigh" ->
           StateOfCells(<<<<[tau |-> Two, omega |-> One, g |-> Zero],
                            [tau |-> Two, omega |-> One, g |-> Zero]>>>>)

\* the ozone densities of Calculate: config_.ozone_profile, or the standard
\* atmosphere's when that is empty
OzoneOf(config) ==
    IF config.ozone_profile = <<>> THEN [i \in 1..TmLayers |-> One] ELSE config.ozone_profile

\* the model's radiators_ (names in the order of Add) combined after UpdateAll
TmCombinedState(radiators, ozone) ==
    IF radiators = <<>> THEN Initialize(TmLayers, TmWavelengths)
    ELSE CombinedStateOf([i \in 1..Len(radiators) |-> RadiatorStateOf(radiators[i], ozone)])

\* Calculate(double) throws: with radiators present it builds a Profile on the
\* altitude grid from each profile, and Profile's constructor throws when the
\* number of values is not the number of cells
CalculateThrows(m) ==
    /\ m.radiators # <<>>
    /\ \E values \in {m.config.temperature_profile, m.config.air_density_profile,
                       m.config.ozone_profile} :
          values # <<>> /\ Len(values) # TmLayers

\* ModelOutput{}
DefaultModelOutput ==
    [solar_zenith_angle |-> 0, day_of_year |-> 1, earth_sun_distance |-> One,
     is_daytime |-> TRUE, used_spherical_geometry |-> TRUE, radiation_field |-> EmptyField]

\* the surface_albedo vector Calculate(double) hands to the solver
SurfaceAlbedoOf(config) ==
    IF config.surface_albedo_spectrum # <<>> THEN config.surface_albedo_spectrum
    ELSE [j \in 1..TmWavelengths |-> config.surface_albedo]

\* the ModelOutput of TuvModel::Calculate(double) on model m
CalculateOutput(m, solar_zenith_angle) ==
    LET config == m.config
        earth_sun_distance == EffectiveEarthSunDistance(config)
        distance_factor == QDiv(One, QMul(earth_sun_distance, earth_sun_distance))
        solar_flux == [j \in 1..TmWavelengths |-> QMul(One, distance_factor)]
        surface_albedo == SurfaceAlbedoOf(config)
        solver_input == [radiator_state |->
                             PointerTo(TmCombinedState(m.radiators, OzoneOf(config))),
                         geometry |-> Nullptr,
                         surface_albedo |-> PointerTo(surface_albedo),
                         extraterrestrial_flux |-> PointerTo(solar_flux),
                         solar_zenith_angle |-> solar_zenith_angle]
    IN  [solar_zenith_angle |-> solar_zenith_angle,
         day_of_year |-> config.day_of_year,
         earth_sun_distance |-> earth_sun_distance,
         is_daytime |-> solar_zenith_angle < 90,
         used_spherical_geometry |-> config.use_spherical_geometry,
         radiation_field |-> Solve(solver_input)]

\* the config_ writes of Calculate(year, month, day, hour, latitude, longitude)
ConfigAfterInstant(config, t) ==
    [config EXCEPT !.solar_zenith_angle = ZenithAngleAt(t),
                   !.day_of_year = DayOfYear(t.year, t.month, t.day),
                   !.latitude = t.latitude,
                   !.longitude = t.longitude]

\* surface albedos passed to SetSurfaceAlbedo
TmAlbedos == {Zero, Two}

\* spectra passed to SetSurfaceAlbedoSpectrum on the two-bin wavelength grid
TmAlbedoSpectra == { <<One, Zero>>, <<One>>, <<>> }

\* the profile fields of config_ with the values their setters are called with
\* on the one-layer altitude grid
TmProfileValues ==
    [ozone_profile |-> { <<Zero>>, <<One, One>> }]

\* zenith angles passed to Calculate(double)
TmAngles == {-60, 0, 60, 90, 120}

NoAlbedoCall == [op |-> "none", albedo |-> Zero, albedo_spectrum |-> <<>>]

TmInit ==
    /\ tm \in {[config |-> c, radiators |-> <<>>] : c \in TmConfigs}
    /\ tmRef = tm
    /\ tmOut = DefaultModelOutput
    /\ tmOp = [op |-> "new", threw |-> FALSE,
               solar_zenith_angle |-> 0, surface_albedo |-> <<>>]
    /\ tmAlbedo = NoAlbedoCall

\* SetSurfaceAlbedo without the clear() of the spectrum
TmSetSurfaceAlbedoKeepingSpectrum(albedo) ==
    /\ tm' = [tm EXCEPT !.config.surface_albedo = albedo]
    /\ tmRef' = [tmRef EXCEPT !.config.surface_albedo = albedo]
    /\ tmOp' = [op |-> "SetSurfaceAlbedo", threw |-> FALSE,
                solar_zenith_angle |-> 0, surface_albedo |-> <<>>]
    /\ tmAlbedo' = [op |-> "SetSurfaceAlbedo", albedo |-> albedo, albedo_spectrum |-> <<>>]
    /\ tmOut' = DefaultModelOutput

TmSetSurfaceAlbedo(albedo) ==
    /\ tm' = [tm EXCEPT !.config.surface_albedo = albedo,
                        !.config.surface_albedo_spectrum = <<>>]
    /\ tmRef' = [tmRef EXCEPT !.config.surface_albedo = albedo,
                              !.config.surface_albedo_spectrum = <<>>]
    /\ tmOp' = [op |-> "SetSurfaceAlbedo", threw |-> FALSE,
                solar_zenith_angle |-> 0, surface_albedo |-> <<>>]
    /\ tmAlbedo' = [op |-> "SetSurfaceAlbedo", albedo |-> albedo, albedo_spectrum |-> <<>>]
    /\ tmOut' = DefaultModelOutput

TmSetSurfaceAlbedoSpectrum(albedo_spectrum) ==
    /\ tm' = [tm EXCEPT !.config.surface_albedo_spectrum = albedo_spectrum]
    /\ tmRef' = [tmRef EXCEPT !.config.surface_albedo_spectrum = albedo_spectrum]
    /\ tmOp' = [op |-> "SetSurfaceAlbedoSpectrum", threw |-> FALSE,
                solar_zenith_angle |-> 0, surface_albedo |-> <<>>]
    /\ tmAlbedo' = [op |-> "SetSurfaceAlbedoSpectrum", albedo |-> Zero,
                    albedo_spectrum |-> albedo_spectrum]
    /\ tmOut' = DefaultModelOutput

\* SetTemperatureProfile, SetOzoneProfile (SetAirDensityProfile is the same
\* assignment to air_density_profile)
TmSetProfile(profile, values) ==
    /\ tm' = [tm EXCEPT !.config[profile] = values]
    /\ tmRef' = [tmRef EXCEPT !.config[profile] = values]
    /\ tmOp' = [op |-> "SetProfile", threw |-> FALSE,
                solar_zenith_angle |-> 0, surface_albedo |-> <<>>]
    /\ tmOut' = DefaultModelOutput
    /\ UNCHANGED tmAlbedo

\* AddO3Radiator, AddO2Radiator, AddRayleighRadiator: radiators_.Add throws on a
\* name already present
TmAddRadiator(name) ==
    /\ tm' = IF RwExists([i \in 1..Len(tm.radiators) |-> [name |-> tm.radiators[i]]], name)
             THEN tm ELSE [tm EXCEPT !.radiators = Append(@, name)]
    /\ tmRef' = IF RwExists([i \in 1..Len(tmRef.radiators) |-> [name |-> tmRef.radiators[i]]],
                            name)
                THEN tmRef ELSE [tmRef EXCEPT !.radiators = Append(@, name)]
    /\ tmOp' = [op |-> "AddRadiator",
                threw |-> RwExists([i \in 1..Len(tm.radiators) |-> [name |-> tm.radiators[i]]],
                                   name),
                solar_zenith_angle |-> 0, surface_albedo |-> <<>>]
    /\ tmOut' = DefaultModelOutput
    /\ UNCHANGED tmAlbedo

\* what the caller of Calculate(double) holds afterwards: the returned
\* ModelOutput, or its own default-constructed one when the call threw
CalculateResult(m, solar_zenith_angle) ==
    IF CalculateThrows(m) THEN DefaultModelOutput ELSE CalculateOutput(m, solar_zenith_angle)

\* Calculate()
TmCalculate ==
    /\ tmOut' = CalculateResult(tm, tm.config.solar_zenith_angle)
    /\ tmOp' = [op |-> "Calculate()", threw |-> CalculateThrows(tm),
                solar_zenith_angle |-> tm.config.solar_zenith_angle,
                surface_albedo |-> SurfaceAlbedoOf(tm.config)]
    /\ UNCHANGED <<tm, tmRef, tmAlbedo>>

\* Calculate(solar_zenith_angle)
TmCalculateAngle(solar_zenith_angle) ==
    /\ tmOut' = CalculateResult(tm, solar_zenith_angle)
    /\ tmOp' = [op |-> "Calculate(chi)", threw |-> CalculateThrows(tm),
                solar_zenith_angle |-> solar_zenith_angle,
                surface_albedo |-> SurfaceAlbedoOf(tm.config)]
    /\ UNCHANGED <<tm, tmRef, tmAlbedo>>

\* Calculate(year, month, day, hour, latitude, longitude)
TmCalculateInstant(t) ==
    /\ tm' = [tm EXCEPT !.config = ConfigAfterInstant(tm.config, t)]
    /\ tmOut' = CalculateResult(tm', ZenithAngleAt(t))
    /\ tmOp' = [op |-> "Calculate(date)", threw |-> CalculateThrows(tm),
                solar_zenith_angle |-> ZenithAngleAt(t),
                surface_albedo |-> SurfaceAlbedoOf(tm.config)]
    /\ UNCHANGED <<tmRef, tmAlbedo>>

TmNext ==
    /\ \/ \E a \in TmAlbedos : TmSetSurfaceAlbedo(a)
       \/ \E v \in TmAlbedoSpectra : TmSetSurfaceAlbedoSpectrum(v)
       \/ \E profile \in DOMAIN TmProfileValues :
             \E values \in TmProfileValues[profile] : TmSetProfile(profile, values)
       \/ \E name \in TmRadiatorNames : TmAddRadiator(name)
       \/ TmCalculate
       \/ \E chi \in TmAngles : TmCalculateAngle(chi)
       \/ \E t \in Instants : TmCalculateInstant(t)
    /\ UNCHANGED <<whVars, mgVars, pfVars, rsVars, svVars, usVars, gdVars, phVars, xqVars, sgVars, moVars>>

-----------------------------------------------------------------------------
(* FromCrossSectionRadiator::UpdateState.  The two warehouses are given by *)
(* what Get returns for the four keys of the radiator: <<>> for a key that *)
(* is absent, <<entity>> for one that is present.                          *)

\* the factor 1.0e5 from km to cm
KmToCm == Q(100000, 1)

\* the radiator's cross_section_->Calculate(wavelength_grid, temperature): the
\* first bin proportional to the temperature, the others constant
CrossSectionAt(wavelength_grid, temperature) ==
    [j \in 1..wavelength_grid.n_cells |-> IF j = 1 THEN temperature ELSE One]

\* values[i] of a span, or the value the read past its end produced
SpanAt(values, i, past_end) == IF i <= Len(values) THEN values[i] ELSE past_end

\* CrossSection::CalculateProfile
CalculateProfile(wavelength_grid, altitude_grid, temperature_profile, past_end) ==
    [i \in 1..altitude_grid.n_cells |->
        CrossSectionAt(wavelength_grid, SpanAt(temperature_profile.mid, i, past_end))]

\* one of the four Get calls of UpdateState throws
KeyAbsent(in) ==
    \/ in.wavelength_grid = <<>> \/ in.altitude_grid = <<>>
    \/ in.density_profile = <<>> \/ in.temperature_profile = <<>>

\* the loops of UpdateState read past the end of a profile's values
ReadsPastEnd(in) ==
    /\ ~KeyAbsent(in)
    /\ \/ in.density_profile[1].n_cells < in.altitude_grid[1].n_cells
       \/ in.temperature_profile[1].n_cells < in.altitude_grid[1].n_cells

\* state_ after UpdateState returned
UpdatedState(in, past_end) ==
    LET wl_grid == in.wavelength_grid[1]
        alt_grid == in.altitude_grid[1]
        densities == in.density_profile[1].mid
        xs_profile == CalculateProfile(wl_grid, alt_grid, in.temperature_profile[1], past_end)
    IN  StateOfCells([i \in 1..alt_grid.n_cells |-> [j \in 1..wl_grid.n_cells |->
            [tau |-> QMul(QMul(xs_profile[i][j], SpanAt(densities, i, past_end)),
                          QMul(QAbs(alt_grid.deltas[i]), KmToCm)),
             omega |-> Zero, g |-> Zero]]])

\* UpdateState(grids, profiles) on a radiator whose state_ is empty
UpdateState(in, past_end) ==
    IF KeyAbsent(in) THEN [op |-> "UpdateState", outcome |-> "threw", state |-> EmptyState]
    ELSE [op |-> "UpdateState", outcome |-> "returned", state |-> UpdatedState(in, past_end)]

\* what a read past the end of a vector's storage yields when it does not fault
PastEndValues == {Zero, Two, NaN}

\* the warehouses UpdateState is called with
UsInputs ==
    [wavelength_grid : {<<>>, <<NewGrid(<<Zero, One, Two>>)>>},
     altitude_grid : {<<>>, <<NewGrid(<<Zero, Two>>)>>, <<NewGrid(<<Two, One, Zero>>)>>},
     density_profile : {<<>>} \cup {<<ProfileFromMid("Profile", v)>> :
                                       v \in { <<One>>, <<Two>>, <<One, Two>> }},
     temperature_profile : {<<>>} \cup {<<ProfileFromMid("Profile", v)>> :
                                           v \in { <<Two>>, <<One, Two>> }}]

UsInit ==
    /\ us \in UsInputs
    /\ usRes = [op |-> "new", outcome |-> "returned", state |-> EmptyState]

UsUpdateState ==
    /\ usRes.op = "new"
    /\ \E past_end \in PastEndValues : usRes' = UpdateState(us, past_end)
    /\ UNCHANGED us

\* the read past the end faults
UsUpdateStateFault ==
    /\ usRes.op = "new"
    /\ ReadsPastEnd(us)
    /\ usRes' = [op |-> "UpdateState", outcome |-> "fault", state |-> EmptyState]
    /\ UNCHANGED us

UsNext ==
    /\ \/ UsUpdateState
       \/ UsUpdateStateFault
    /\ UNCHANGED <<whVars, mgVars, pfVars, rsVars, svVars, tmVars, gdVars, phVars, xqVars, sgVars, moVars>>

-----------------------------------------------------------------------------
(* Grid: its constructors and FindCell.  std::log is taken on the powers   *)
(* of two, as the inverse of the model's std::exp.                         *)

\* Grid() = default
DefaultGrid == [n_cells |-> 0, edges |-> <<>>, midpoints |-> <<>>, deltas |-> <<>>]

\* Grid(spec, edges)
GridOf(n_cells, edges) ==
    IF Len(edges) # n_cells + 1 THEN Thrown ELSE Returned(NewGrid(edges))

\* array::Linspace
Linspace(min, max, n) ==
    IF n = 0 THEN <<>>
    ELSE IF n = 1 THEN <<min>>
    ELSE LET step == QDiv(QSub(max, min), Q(n - 1, 1))
         IN  [i \in 1..n |-> IF i = n THEN max ELSE QAdd(min, QMul(Q(i - 1, 1), step))]

\* std::log of a positive power of two
LogOf(x) ==
    IF x[2] = 1 THEN Q(CHOOSE k \in 0..30 : Pow2(k) = x[1], 1)
    ELSE Q(-(CHOOSE k \in 0..30 : Pow2(k) = x[2]), 1)

\* array::Logspace
Logspace(min, max, n) ==
    IF n = 0 \/ QLeq(min, Zero) \/ QLeq(max, Zero) THEN <<>>
    ELSE IF n = 1 THEN <<min>>
    ELSE LET log_min == LogOf(min)
             log_step == QDiv(QSub(LogOf(max), log_min), Q(n - 1, 1))
         IN  [i \in 1..n |-> IF i = 1 THEN min
                             ELSE IF i = n THEN max
                             ELSE ExpOf(QAdd(log_min, QMul(Q(i - 1, 1), log_step)))]

\* Grid::EquallySpaced
EquallySpaced(n_cells, lower, upper) == GridOf(n_cells, Linspace(lower, upper, n_cells + 1))

\* Grid::LogarithmicallySpaced
LogarithmicallySpaced(n_cells, lower, upper) ==
    IF QLeq(lower, Zero) \/ QLeq(upper, Zero) THEN Thrown
    ELSE GridOf(n_cells, Logspace(lower, upper, n_cells + 1))

\* MutableGrid::ToGrid
ToGrid(mutable_grid) == GridOf(mutable_grid.n_cells, mutable_grid.edges)

\* std::upper_bound(edges.begin(), edges.end(), value[, std::greater]) as the
\* zero-based distance from begin(): the library's bisection from position
\* first over count elements
RECURSIVE UpperBound(_, _, _, _, _)
UpperBound(edges, value, descending, first, count) ==
    IF count = 0 THEN first
    ELSE LET step == count \div 2
             element == edges[first + step + 1]
             comp == IF descending THEN QLess(element, value) ELSE QLess(value, element)
         IN  IF comp THEN UpperBound(edges, value, descending, first, step)
             ELSE UpperBound(edges, value, descending, first + step + 1, count - step - 1)

\* FindCell's search once the value passed the range test
CellOfUpperBound(grid, it) ==
    IF it = 0 THEN <<0>>
    ELSE IF it - 1 >= grid.n_cells THEN <<grid.n_cells - 1>>
    ELSE <<it - 1>>

\* FindCell with std::lower_bound in place of std::upper_bound
FindCellByLowerBound(grid, value) ==
    IF grid.n_cells = 0 THEN <<>>
    ELSE LET front == grid.edges[1]
             back == grid.edges[Len(grid.edges)]
             before == {i \in 1..Len(grid.edges) :
                           IF QLeq(front, back) THEN QLess(grid.edges[i], value)
                           ELSE QLess(value, grid.edges[i])}
         IN  IF QLeq(front, back) /\ (QLess(value, front) \/ QLess(back, value)) THEN <<>>
             ELSE IF ~QLeq(front, back) /\ (QLess(front, value) \/ QLess(value, back)) THEN <<>>
             ELSE CellOfUpperBound(grid, Cardinality(before))

\* Grid::FindCell and MutableGrid::FindCell, which have the same body: <<>> is
\* std::nullopt, <<i>> the zero-based cell index i
FindCell(grid, value) ==
    IF grid.n_cells = 0 THEN <<>>
    ELSE LET front == grid.edges[1]
             back == grid.edges[Len(grid.edges)]
         IN  IF QLeq(front, back)
             THEN IF QLess(value, front) \/ QLess(back, value) THEN <<>>
                  ELSE CellOfUpperBound(grid,
                           UpperBound(grid.edges, value, FALSE, 0, Len(grid.edges)))
             ELSE IF QLess(front, value) \/ QLess(value, back) THEN <<>>
                  ELSE CellOfUpperBound(grid,
                           UpperBound(grid.edges, value, TRUE, 0, Len(grid.edges)))

\* the n_cells of the GridSpec handed to the constructors
GdCellCounts == {0, 1, 2, 3}

\* the n_cells handed to LogarithmicallySpaced
GdLogCellCounts == {0, 1, 2}

\* edge vectors handed to Grid(spec, edges)
GdEdgeVectors ==
    EdgeVectors \cup { <<Zero>>, <<One, One>>, <<Zero, One, One>>, <<Two, Two, One, Zero>>,
                       <<Zero, Two, One>>, <<Zero, One, Two, Q(3, 1)>>,
                       <<Q(3, 1), Two, One, Zero>> }

\* bounds handed to EquallySpaced and LogarithmicallySpaced
GdBounds == {Zero, One, Q(4, 1)}

\* values handed to FindCell
GdValues == {QNeg(One), Zero, Half, One, Q(3, 2), Two, Q(3, 1), Q(4, 1), NaN, PInf}

\* a MutableGrid after a SetEdge call that was not followed by Update
GdMutableGrids ==
    {[NewMutableGrid(e) EXCEPT !.edges[i] = v] :
        e \in EdgeVectors, i \in 1..2, v \in {One, Two}}

\* the mutable grids FindCell is called on: two with three cells, and one
\* after SetEdge(1, 3) without Update
GdSearchedGrids ==
    {NewMutableGrid(<<Zero, One, Two, Q(3, 1)>>), NewMutableGrid(<<Q(3, 1), Two, One, Zero>>),
     [NewMutableGrid(<<Zero, One, Two>>) EXCEPT !.edges[2] = Q(3, 1)]}

GdInit ==
    /\ gd = DefaultGrid
    /\ gdOp = [op |-> "Grid()", threw |-> FALSE, value |-> Zero, edges |-> <<>>,
               result |-> <<>>]

\* gd = <a constructor call>, which leaves gd alone when it throws
GdAssign(op, constructed) ==
    /\ gd' = IF constructed.ok THEN constructed.value ELSE gd
    /\ gdOp' = [op |-> op, threw |-> ~constructed.ok, value |-> Zero, edges |-> <<>>,
                result |-> <<>>]

GdConstruct(n_cells, edges) == GdAssign("Grid(spec, edges)", GridOf(n_cells, edges))

GdEquallySpaced(n_cells, lower, upper) ==
    GdAssign("EquallySpaced", EquallySpaced(n_cells, lower, upper))

GdLogarithmicallySpaced(n_cells, lower, upper) ==
    GdAssign("LogarithmicallySpaced", LogarithmicallySpaced(n_cells, lower, upper))

GdToGrid(mutable_grid) == GdAssign("ToGrid", ToGrid(mutable_grid))

GdFindCell(value) ==
    /\ gdOp' = [op |-> "FindCell", threw |-> FALSE, value |-> value, edges |-> gd.edges,
                result |-> FindCell(gd, value)]
    /\ UNCHANGED gd

\* MutableGrid::FindCell on a mutable grid, which leaves the Grid alone
GdMutableFindCell(mutable_grid, value) ==
    /\ gdOp' = [op |-> "MutableGrid::FindCell", threw |-> FALSE, value |-> value,
                edges |-> mutable_grid.edges, result |-> FindCell(mutable_grid, value)]
    /\ UNCHANGED gd

GdNext ==
    /\ \/ \E n_cells \in GdCellCounts, edges \in GdEdgeVectors : GdConstruct(n_cells, edges)
       \/ \E n_cells \in GdCellCounts, lower \in GdBounds, upper \in GdBounds :
             GdEquallySpaced(n_cells, lower, upper)
       \/ \E n_cells \in GdLogCellCounts, lower \in GdBounds, upper \in GdBounds :
             GdLogarithmicallySpaced(n_cells, lower, upper)
       \/ \E mutable_grid \in GdMutableGrids : GdToGrid(mutable_grid)
       \/ \E value \in GdValues : GdFindCell(value)
       \/ \E mutable_grid \in GdSearchedGrids, value \in GdValues :
             GdMutableFindCell(mutable_grid, value)
    /\ UNCHANGED <<whVars, mgVars, pfVars, rsVars, svVars, tmVars, usVars, phVars, xqVars, sgVars, moVars>>

-----------------------------------------------------------------------------
(* The radiation field and the photolysis rates of one reaction, as        *)
(* TuvModel::Calculate computes them: the solver's field, then             *)
(* PhotolysisRateCalculator::Calculate on it.                              *)

\* the temperature Calculate uses where the profile has no value
DefaultTemperature == Q(298, 1)

\* the air_density a call of QuantumYield::Calculate without a third
\* argument passes
DefaultAirDensity == Zero

\* quantum_yield_->Calculate(wavelength_grid, temperature, air_density) of a
\* yield with quenching: one half without air, less in denser air
QuantumYieldAt(wavelength_grid, temperature, air_density) ==
    [j \in 1..wavelength_grid.n_cells |-> QDiv(Half, QAdd(One, air_density))]

\* the layer whose temperature level uses; both are counted from one
LayerOfLevel(level) == IF level > 1 THEN level - 1 ELSE 1

\* the temperature of lines 98-106, with whether it was read from the profile
LevelTemperature(temperature_profile, level) ==
    IF temperature_profile # <<>> /\ LayerOfLevel(level) <= Len(temperature_profile)
    THEN [value |-> temperature_profile[LayerOfLevel(level)], from_profile |-> TRUE]
    ELSE [value |-> DefaultTemperature, from_profile |-> FALSE]

\* RadiationField::TotalActinicFlux; level is counted from one
TotalActinicFlux(radiation_field, level) ==
    [j \in 1..Len(radiation_field.direct_irradiance[level]) |->
        QAdd(radiation_field.actinic_flux_direct[level][j],
             radiation_field.actinic_flux_diffuse[level][j])]

\* the rate of one level
RateAtLevel(radiation_field, wavelength_grid, temperature_profile, level) ==
    LET temperature == LevelTemperature(temperature_profile, level).value
        xs_values == CrossSectionAt(wavelength_grid, temperature)
        qy_values == QuantumYieldAt(wavelength_grid, temperature, DefaultAirDensity)
        actinic_flux == TotalActinicFlux(radiation_field, level)
    IN  SumSeq([j \in 1..Len(actinic_flux) |->
                   QMul(QMul(QMul(actinic_flux[j], xs_values[j]), qy_values[j]),
                        QAbs(wavelength_grid.deltas[j]))])

\* PhotolysisRateCalculator::Calculate: Result::rates
PhotolysisRates(radiation_field, wavelength_grid, temperature_profile) ==
    IF radiation_field.direct_irradiance = <<>> THEN <<>>
    ELSE [level \in 1..Len(radiation_field.direct_irradiance) |->
             RateAtLevel(radiation_field, wavelength_grid, temperature_profile, level)]

\* the wavelength grid of a field with n_wavelengths bins
PhGrid(n_wavelengths) == NewGrid([i \in 1..(n_wavelengths + 1) |-> Q(2 * (i - 1), 1)])

\* the solver inputs and temperature profiles the rates are computed for
PhInputs ==
    [input : {i \in SolverInputs : i.radiator_state # Nullptr /\ i.solar_zenith_angle < 90},
     temperature_profile : { <<>>, <<Two>>, <<Two, One>> },
     air_density_profile : { <<>>, <<One, Two>> }]

PhNothing == [field |-> EmptyField, rates |-> <<>>, temperatures |-> <<>>, calculated |-> FALSE]

PhInit ==
    /\ ph \in PhInputs
    /\ phRes = PhNothing

\* radiation_field = solver_.Solve(input), then the rates on it
PhCalculate ==
    /\ ~phRes.calculated
    /\ LET radiation_field == Solve(ph.input)
       IN  phRes' = [field |-> radiation_field,
                     rates |-> PhotolysisRates(radiation_field,
                                   PhGrid(NumberOfWavelengths(ph.input.radiator_state[1])),
                                   ph.temperature_profile),
                     temperatures |-> [level \in 1..Len(radiation_field.direct_irradiance) |->
                                          LevelTemperature(ph.temperature_profile, level)],
                     calculated |-> TRUE]
    /\ UNCHANGED ph

\* the same model asked again for another atmosphere
PhReset ==
    /\ phRes.calculated
    /\ ph' \in PhInputs
    /\ phRes' = PhNothing

PhNext ==
    /\ \/ PhCalculate
       \/ PhReset
    /\ UNCHANGED <<whVars, mgVars, pfVars, rsVars, svVars, tmVars, usVars, gdVars, xqVars, sgVars, moVars>>

-----------------------------------------------------------------------------
(* Cross-sections and quantum yields: Calculate(wavelength_grid,           *)
(* temperature) of every variant.  A variant is a record of its type and   *)
(* its constructor arguments.                                              *)

\* LinearInterpolator::InterpolateSingle
InterpolateSingle(x, source_x, source_y) ==
    IF QLeq(x, source_x[1]) THEN source_y[1]
    ELSE IF QLeq(source_x[Len(source_x)], x) THEN source_y[Len(source_y)]
    ELSE LET i_upper == UpperBound(source_x, x, FALSE, 0, Len(source_x)) + 1
             i_lower == i_upper - 1
             t == QDiv(QSub(x, source_x[i_lower]), QSub(source_x[i_upper], source_x[i_lower]))
         IN  QAdd(source_y[i_lower], QMul(t, QSub(source_y[i_upper], source_y[i_lower])))

\* LinearInterpolator::Interpolate
Interpolate(target_x, source_x, source_y) ==
    IF source_x = <<>> \/ source_y = <<>> \/ Len(source_x) # Len(source_y)
    THEN [i \in 1..Len(target_x) |-> Zero]
    ELSE [i \in 1..Len(target_x) |-> InterpolateSingle(target_x[i], source_x, source_y)]

\* std::lower_bound on the reference temperatures, as a one-based index
LowerBound(values, value) ==
    IF \E i \in 1..Len(values) : ~QLess(values[i], value)
    THEN CHOOSE i \in 1..Len(values) :
            /\ ~QLess(values[i], value)
            /\ \A h \in 1..(i - 1) : QLess(values[h], value)
    ELSE Len(values) + 1

\* TemperatureBasedCrossSection::InterpolateTemperature
InterpolateTemperature(target_temperature, reference_temperatures, cross_section_data) ==
    IF reference_temperatures = <<>> \/ cross_section_data = <<>> THEN <<>>
    ELSE LET n_temps == Len(reference_temperatures)
             clamped_temp == Clamp(target_temperature, reference_temperatures[1],
                                   reference_temperatures[n_temps])
             i_upper == LowerBound(reference_temperatures, clamped_temp)
         IN  IF i_upper = 1 THEN cross_section_data[1]
             ELSE IF i_upper = n_temps + 1 THEN cross_section_data[n_temps]
             ELSE LET i_lower == i_upper - 1
                      t_lower == reference_temperatures[i_lower]
                      t_upper == reference_temperatures[i_upper]
                      weight == QDiv(QSub(clamped_temp, t_lower), QSub(t_upper, t_lower))
                  IN  IF BelowThreshold(QAbs(QSub(t_upper, t_lower)))
                      THEN cross_section_data[i_lower]
                      ELSE [i \in 1..Len(cross_section_data[1]) |->
                               QAdd(cross_section_data[i_lower][i],
                                    QMul(weight, QSub(cross_section_data[i_upper][i],
                                                      cross_section_data[i_lower][i])))]

\* the loop that zeroes the values outside the reference wavelength range
ZeroOutside(result, target_wavelengths, wavelengths) ==
    [i \in 1..Len(result) |->
        IF QLess(target_wavelengths[i], wavelengths[1])
              \/ QLess(wavelengths[Len(wavelengths)], target_wavelengths[i])
        THEN Zero ELSE result[i]]

\* "if (result[i] < 0.0) result[i] = 0.0"
NonNegative(result) == [i \in 1..Len(result) |-> IF QLess(result[i], Zero) THEN Zero ELSE result[i]]

\* BaseCrossSection::Calculate
BaseCrossSectionCalculate(v, wavelength_grid, temperature) ==
    LET temp_xs == IF Len(v.reference_temperatures) = 1 THEN v.cross_section_data[1]
                   ELSE InterpolateTemperature(temperature, v.reference_temperatures,
                                               v.cross_section_data)
    IN  ZeroOutside(Interpolate(wavelength_grid.midpoints, v.wavelengths, temp_xs),
                    wavelength_grid.midpoints, v.wavelengths)

\* O3CrossSection::Calculate
O3CrossSectionCalculate(v, wavelength_grid, temperature) ==
    LET temp_xs == InterpolateTemperature(temperature, v.reference_temperatures,
                                          v.cross_section_data)
    IN  NonNegative(ZeroOutside(Interpolate(wavelength_grid.midpoints, v.wavelengths, temp_xs),
                                wavelength_grid.midpoints, v.wavelengths))

\* O2CrossSection::Calculate
O2CrossSectionCalculate(v, wavelength_grid) ==
    NonNegative(ZeroOutside(Interpolate(wavelength_grid.midpoints, v.wavelengths,
                                        v.cross_section_data),
                            wavelength_grid.midpoints, v.wavelengths))

\* BaseQuantumYield::Calculate
BaseQuantumYieldCalculate(v, wavelength_grid) ==
    IF v.wavelengths = <<>> THEN [i \in 1..wavelength_grid.n_cells |-> Zero]
    ELSE LET result == Interpolate(wavelength_grid.midpoints, v.wavelengths, v.quantum_yields)
         IN  [i \in 1..Len(result) |->
                 IF QLess(wavelength_grid.midpoints[i], v.wavelengths[1])
                       \/ QLess(v.wavelengths[Len(v.wavelengths)], wavelength_grid.midpoints[i])
                 THEN Zero ELSE Clamp(result[i], Zero, One)]

\* O3O1DQuantumYield::CalculateAtWavelength
CalculateAtWavelength(wavelength, temperature) ==
    IF QLess(wavelength, Q(175, 1)) \/ QLess(Q(400, 1), wavelength) THEN Zero
    ELSE IF QLess(wavelength, Q(306, 1)) THEN Q(9, 10)
    ELSE IF QLeq(wavelength, Q(328, 1))
    THEN LET wl_frac == QDiv(QSub(wavelength, Q(306, 1)), Q(22, 1))
             phi_298 == QSub(Q(9, 10), QMul(Q(9, 20), wl_frac))
             T_factor == Clamp(QAdd(One, QMul(Q(3, 1000), QSub(Q(298, 1), temperature))),
                               Q(4, 5), Q(13, 10))
         IN  Clamp(QMul(phi_298, T_factor), Zero, One)
    ELSE IF QLeq(wavelength, Q(340, 1))
    THEN LET wl_frac == QDiv(QSub(wavelength, Q(328, 1)), Q(12, 1))
             phi == QSub(Q(9, 20), QMul(QSub(Q(9, 20), Q(2, 25)), wl_frac))
             T_factor == QAdd(One, QMul(Q(1, 1000), QSub(Q(298, 1), temperature)))
         IN  Clamp(QMul(phi, Clamp(T_factor, Q(9, 10), Q(11, 10))), Zero, One)
    ELSE IF QLeq(wavelength, Q(370, 1))
    THEN LET wl_frac == QDiv(QSub(wavelength, Q(340, 1)), Q(30, 1))
             phi == QMul(Q(2, 25), QSub(One, wl_frac))
         IN  IF QLess(phi, Zero) THEN Zero ELSE phi
    ELSE Zero

\* O3O1DQuantumYield::Calculate
O3O1DCalculate(wavelength_grid, temperature) ==
    [i \in 1..wavelength_grid.n_cells |->
        CalculateAtWavelength(wavelength_grid.midpoints[i],
                              Clamp(temperature, Q(200, 1), Q(320, 1)))]

\* O3O3PQuantumYield::Calculate
O3O3PCalculate(wavelength_grid, temperature) ==
    LET phi_o1d == O3O1DCalculate(wavelength_grid, temperature)
    IN  [i \in 1..Len(phi_o1d) |-> QSub(One, phi_o1d[i])]

\* variant->Calculate(wavelength_grid, temperature), by the variant's type
VariantCalculate(v, wavelength_grid, temperature) ==
    CASE v.type = "ConstantQuantumYield" -> [i \in 1..wavelength_grid.n_cells |-> v.value]
      [] v.type = "BaseQuantumYield" -> BaseQuantumYieldCalculate(v, wavelength_grid)
      [] v.type = "BaseCrossSection" -> BaseCrossSectionCalculate(v, wavelength_grid, temperature)
      [] v.type = "O3CrossSection" -> O3CrossSectionCalculate(v, wavelength_grid, temperature)
      [] v.type = "O2CrossSection" -> O2CrossSectionCalculate(v, wavelength_grid)
      [] v.type = "O3O1DQuantumYield" -> O3O1DCalculate(wavelength_grid, temperature)
      [] v.type = "O3O3PQuantumYield" -> O3O3PCalculate(wavelength_grid, temperature)

\* the reference wavelengths of the tabulated variants, in nm
XqWavelengths == <<Q(200, 1), Q(300, 1), Q(400, 1)>>

\* tabulated values on XqWavelengths: one row per reference temperature
XqTables ==
    { << <<One, Two, Zero>> >>,
      << <<One, QNeg(One), One>> >>,
      << <<Q(3, 2), Half, Zero>> >>,
      << <<Zero, Two, Two>>, <<Two, Zero, One>> >> }

\* the variants Calculate is called on
XqVariants ==
    {[type |-> "ConstantQuantumYield", value |-> y] : y \in {Zero, Half, One, Q(3, 2)}}
      \cup {[type |-> "BaseQuantumYield", wavelengths |-> XqWavelengths, quantum_yields |-> t[1]] :
               t \in XqTables}
      \cup {[type |-> "BaseQuantumYield", wavelengths |-> <<>>, quantum_yields |-> <<>>]}
      \cup {[type |-> ty, wavelengths |-> XqWavelengths,
             reference_temperatures |-> IF Len(t) = 1 THEN <<Q(298, 1)>>
                                        ELSE <<Q(218, 1), Q(298, 1)>>,
             cross_section_data |-> t] :
               ty \in {"BaseCrossSection", "O3CrossSection"}, t \in XqTables}
      \cup {[type |-> "O2CrossSection", wavelengths |-> XqWavelengths, cross_section_data |-> t[1]] :
               t \in {u \in XqTables : Len(u) = 1}}
      \cup {[type |-> "O3O1DQuantumYield"], [type |-> "O3O3PQuantumYield"]}

\* the wavelength grids the variants are evaluated on (edges in nm)
XqGrids ==
    {NewGrid(e) : e \in { <<Q(150, 1), Q(180, 1), Q(312, 1), Q(322, 1)>>,
                          <<Q(322, 1), Q(336, 1), Q(360, 1), Q(380, 1), Q(420, 1), Q(440, 1)>>,
                          <<Q(100, 1), Q(300, 1), Q(400, 1), Q(500, 1)>>,
                          <<Q(500, 1), Q(300, 1), Q(250, 1)>> }}

XqTemperatures == {Q(150, 1), Q(258, 1), Q(298, 1), Q(400, 1)}

XqInit ==
    /\ xq \in [variant : XqVariants, wavelength_grid : XqGrids, temperature : XqTemperatures]
    /\ xqRes = [calculated |-> FALSE, values |-> <<>>]

XqCalculate ==
    /\ ~xqRes.calculated
    /\ xqRes' = [calculated |-> TRUE,
                 values |-> VariantCalculate(xq.variant, xq.wavelength_grid, xq.temperature)]
    /\ UNCHANGED xq

\* the caller moves on to another variant, grid or temperature
XqReset ==
    /\ xqRes.calculated
    /\ xq' \in [variant : XqVariants, wavelength_grid : XqGrids,
                temperature : XqTemperatures]
    /\ xqRes' = [calculated |-> FALSE, values |-> <<>>]

XqNext ==
    /\ \/ XqCalculate
       \/ XqReset
    /\ UNCHANGED <<whVars, mgVars, pfVars, rsVars, svVars, tmVars, usVars, gdVars, phVars, sgVars, moVars>>

-----------------------------------------------------------------------------
(* SphericalGeometry: the constructor and Calculate(solar_zenith_angle).   *)
(* Angles are whole degrees; std::cos and std::sin are tabulated at the    *)
(* angles of the model by fractions on the unit circle.                    *)

\* std::cos(solar_zenith_angle * kDegreesToRadians); at 90 degrees the
\* library returns a small positive number
CosDeg(chi) ==
    CASE chi = 0 -> One
      [] chi = 53 -> Q(3, 5)
      [] chi = 90 -> Q(1, 64)
      [] chi = 100 -> Q(-11, 61)
      [] chi = 106 -> Q(-7, 25)
      [] chi = 127 -> Q(-3, 5)
      [] chi = 180 -> Q(-1, 1)

\* std::sin(solar_zenith_angle * kDegreesToRadians)
SinDeg(chi) ==
    CASE chi = 0 -> Zero
      [] chi = 53 -> Q(4, 5)
      [] chi = 90 -> One
      [] chi = 100 -> Q(60, 61)
      [] chi = 106 -> Q(24, 25)
      [] chi = 127 -> Q(4, 5)
      [] chi = 180 -> Zero

\* std::min(a, b): b if b < a, otherwise a
StdMin(a, b) == IF QLess(b, a) THEN b ELSE a

\* SphericalGeometry(altitude_grid, earth_radius)
NewSphericalGeometry(altitude_grid, earth_radius) ==
    [earth_radius |-> earth_radius,
     n_levels |-> Len(altitude_grid.edges),
     radii |-> [i \in 1..Len(altitude_grid.edges) |-> QAdd(earth_radius, altitude_grid.edges[i])]]

\* std::min(std::sqrt(1 + (y*y - 1) / (cos*cos)), 40.0): the square root
\* passes 40 exactly when y*y - 1 reaches 1599 cos*cos
CappedEnhancement(y, cos_sza) ==
    IF QLeq(QMul(Q(1599, 1), QMul(cos_sza, cos_sza)), QSub(QMul(y, y), One))
    THEN Q(40, 1)
    ELSE StdMin(SqrtOf(QAdd(One, QDiv(QSub(QMul(y, y), One), QMul(cos_sza, cos_sza)))),
                Q(40, 1))

\* SphericalGeometry::CalculateEnhancementFactor
CalculateEnhancementFactor(g, radius, chi) ==
    LET cos_sza == CosDeg(chi)
        sin_sza == SinDeg(chi)
        y == QDiv(radius, g.earth_radius)
    IN  IF QLess(Q(1, 5), QAbs(cos_sza))
        THEN LET x == QDiv(QSub(radius, g.earth_radius), g.earth_radius)
                 correction == QAdd(One, QMul(x, QMul(sin_sza, sin_sza)))
             IN  QDiv(correction, QAbs(cos_sza))
        ELSE IF QLess(Zero, cos_sza) THEN CappedEnhancement(y, cos_sza)
        ELSE \* effective_sza = chi - acos(1 / y) lies in (0, pi): it is below
             \* pi / 2 exactly when its cosine is positive
             LET cos_grazing == QDiv(g.earth_radius, radius)
                 sin_grazing == SqrtOf(QSub(One, QMul(cos_grazing, cos_grazing)))
                 cos_effective == QAdd(QMul(cos_sza, cos_grazing), QMul(sin_sza, sin_grazing))
             IN  IF QLess(Zero, cos_effective) THEN QDiv(One, cos_effective) ELSE Zero

\* result.screening_height after lines 108-119
ScreeningHeight(g, chi) ==
    IF chi > 90
    THEN StdMin(QMul(g.earth_radius, QSub(QDiv(One, QAbs(CosDeg(chi))), One)),
                QSub(g.radii[g.n_levels], g.earth_radius))
    ELSE Zero

\* the test of line 131 with <= in place of <
InShadowAtScreeningHeight(g, chi, i) ==
    chi > 90 /\ QLeq(QSub(g.radii[i], g.earth_radius), ScreeningHeight(g, chi))

\* the test of line 131 for layer i (counted from one)
InShadow(g, chi, i) ==
    chi > 90 /\ QLess(QSub(g.radii[i], g.earth_radius), ScreeningHeight(g, chi))

RECURSIVE CumulativeAirMass(_, _, _, _)
\* the loop of lines 146-155, from layer n_layers down to layer: the values
\* of air_mass[layer..n_layers]
CumulativeAirMass(g, enhancement_factor, sunlit, layer) ==
    IF layer > Len(sunlit) THEN <<>>
    ELSE LET above == CumulativeAirMass(g, enhancement_factor, sunlit, layer + 1)
             cumulative == IF above = <<>> THEN Zero ELSE above[1]
             dz == QSub(g.radii[layer + 1], g.radii[layer])
         IN  <<IF sunlit[layer] THEN QAdd(cumulative, QMul(enhancement_factor[layer], dz))
               ELSE cumulative>> \o above

\* n_layers = n_levels_ - 1 in std::size_t: it wraps when there is no level
LayerCountWraps(g) == g.n_levels = 0

\* line 97 writes air_mass[n_layers - 1] whatever n_layers is
WritesBeforeBegin(g, chi) == g.n_levels = 1 /\ chi < 85

\* SphericalGeometry::Calculate for n_layers >= 1, and for n_layers = 0 in
\* the spherical regime, where no loop runs
SlantPathResult(g, chi) ==
    LET n_layers == g.n_levels - 1
    IN  IF chi < 85
        THEN LET sec_sza == QDiv(One, CosDeg(chi))
             IN  [enhancement_factor |-> [i \in 1..n_layers |-> sec_sza],
                  air_mass |-> [i \in 1..n_layers |-> QMul(Q(n_layers + 1 - i, 1), sec_sza)],
                  sunlit |-> [i \in 1..n_layers |-> TRUE],
                  zenith_angle |-> chi, screening_height |-> Zero]
        ELSE LET sunlit == [i \in 1..n_layers |-> ~InShadow(g, chi, i)]
                 enhancement_factor ==
                     [i \in 1..n_layers |->
                         IF InShadow(g, chi, i) THEN Zero
                         ELSE CalculateEnhancementFactor(
                                  g, QMul(Half, QAdd(g.radii[i], g.radii[i + 1])), chi)]
             IN  [enhancement_factor |-> enhancement_factor,
                  air_mass |-> CumulativeAirMass(g, enhancement_factor, sunlit, 1),
                  sunlit |-> sunlit,
                  zenith_angle |-> chi, screening_height |-> ScreeningHeight(g, chi)]

NoSlantPath ==
    [enhancement_factor |-> <<>>, air_mass |-> <<>>, sunlit |-> <<>>,
     zenith_angle |-> 0, screening_height |-> Zero]

\* altitude grids (edges in km) with the Earth radius used with each
SgInputs ==
    {[grid |-> NewGrid(<<Zero, Q(20, 1), Q(40, 1), Q(60, 1), Q(84, 1)>>), earth_radius |-> Q(13, 1)],
     [grid |-> NewGrid(<<Zero, Q(60, 1), Q(84, 1)>>), earth_radius |-> Q(13, 1)],
     [grid |-> NewGrid(<<Q(84, 1), Q(60, 1)>>), earth_radius |-> Q(13, 1)],
     [grid |-> NewGrid(<<Zero, Two, Q(4, 1), Q(6, 1)>>), earth_radius |-> Q(3, 1)],
     [grid |-> NewGrid(<<Zero>>), earth_radius |-> Q(13, 1)],
     [grid |-> DefaultGrid, earth_radius |-> Q(13, 1)]}
      \cup {[grid |-> NewGrid(e), earth_radius |-> r] :
               e \in { <<Zero, Q(6, 1)>>, <<Zero, Q(6, 1), Q(12, 1)>>, <<Two, Q(6, 1), Q(10, 1)>>,
                       <<Zero, Q(6, 1), Q(8, 1), Q(12, 1)>>, <<Q(4, 1), Q(8, 1)>>, <<Q(5, 1)>> },
               r \in {Q(3, 1), Q(13, 1)}}

SgAngles == {0, 53, 90, 100, 106, 127, 180}

SgInit ==
    /\ \E in \in SgInputs : sg = NewSphericalGeometry(in.grid, in.earth_radius)
    /\ sgRes = [op |-> "new", outcome |-> "returned", out_of_range |-> FALSE,
                result |-> NoSlantPath]

\* a new SphericalGeometry object for another grid
SgConstruct ==
    /\ sgRes.op = "Calculate"
    /\ \E in \in SgInputs : sg' = NewSphericalGeometry(in.grid, in.earth_radius)
    /\ sgRes' = [op |-> "new", outcome |-> "returned", out_of_range |-> FALSE,
                 result |-> NoSlantPath]

\* Calculate(chi) where every index it uses is inside the arrays
SgCalculate ==
    /\ ~LayerCountWraps(sg)
    /\ \E chi \in SgAngles :
          /\ ~WritesBeforeBegin(sg, chi)
          /\ sgRes' = [op |-> "Calculate", outcome |-> "returned", out_of_range |-> FALSE,
                       result |-> SlantPathResult(sg, chi)]
    /\ UNCHANGED sg

\* Calculate(chi) on a geometry without levels: resize(SIZE_MAX) throws
\* std::length_error
SgCalculateLengthError ==
    /\ LayerCountWraps(sg)
    /\ \E chi \in SgAngles :
          sgRes' = [op |-> "Calculate", outcome |-> "threw", out_of_range |-> FALSE,
                    result |-> [NoSlantPath EXCEPT !.zenith_angle = chi]]
    /\ UNCHANGED sg

\* Calculate(chi < 85) on a geometry with one level: the write to
\* air_mass[SIZE_MAX] lands outside the empty array; the call faults or
\* returns the empty result
SgCalculateOutOfRange ==
    /\ \E chi \in SgAngles, outcome \in {"fault", "returned"} :
          /\ WritesBeforeBegin(sg, chi)
          /\ sgRes' = [op |-> "Calculate", outcome |-> outcome, out_of_range |-> TRUE,
                       result |-> [NoSlantPath EXCEPT !.zenith_angle = chi]]
    /\ UNCHANGED sg

SgNext ==
    /\ \/ SgConstruct
       \/ SgCalculate
       \/ SgCalculateLengthError
       \/ SgCalculateOutOfRange
    /\ UNCHANGED <<whVars, mgVars, pfVars, rsVars, svVars, tmVars, usVars, gdVars, phVars, xqVars, moVars>>

-----------------------------------------------------------------------------
(* ModelOutput: the photolysis reactions registered with the model, the    *)
(* output of its last Calculate, and the accessors GetPhotolysisRate and   *)
(* GetBandActinicFlux.  Levels are counted from one.  A reaction is        *)
(* [name, cross_section, quantum_yield], the last two being the value of a *)
(* cross-section and of a yield that do not vary with wavelength.          *)

MaxReactions == 2

\* PhotolysisRateSet::AddReaction
AddReaction(calculators, name, cross_section, quantum_yield) ==
    Append(calculators,
           [name |-> name, cross_section |-> cross_section, quantum_yield |-> quantum_yield])

\* Calculate(wavelength_grid, temperature) of a cross-section or a yield with
\* one value at every wavelength
FlatSpectrum(value, wavelength_grid) == [j \in 1..wavelength_grid.n_cells |-> value]

\* PhotolysisRateCalculator::Calculate of one reaction
ReactionResult(calc, radiation_field, wavelength_grid) ==
    [reaction_name |-> calc.name,
     rates |->
        IF radiation_field.direct_irradiance = <<>> THEN <<>>
        ELSE [level \in 1..Len(radiation_field.direct_irradiance) |->
                LET xs_values == FlatSpectrum(calc.cross_section, wavelength_grid)
                    qy_values == FlatSpectrum(calc.quantum_yield, wavelength_grid)
                    actinic_flux == TotalActinicFlux(radiation_field, level)
                IN  SumSeq([j \in 1..Len(actinic_flux) |->
                        QMul(QMul(QMul(actinic_flux[j], xs_values[j]), qy_values[j]),
                             QAbs(wavelength_grid.deltas[j]))])]]

\* PhotolysisRateSet::CalculateAll
CalculateAll(calculators, radiation_field, wavelength_grid) ==
    [i \in 1..Len(calculators) |->
        ReactionResult(calculators[i], radiation_field, wavelength_grid)]

\* the first result carrying the name, 0 when there is none
FirstNamed(photolysis_rates, reaction_name) ==
    IF \E i \in 1..Len(photolysis_rates) : photolysis_rates[i].reaction_name = reaction_name
    THEN CHOOSE i \in 1..Len(photolysis_rates) :
            /\ photolysis_rates[i].reaction_name = reaction_name
            /\ \A k \in 1..(i - 1) : photolysis_rates[k].reaction_name # reaction_name
    ELSE 0

\* ModelOutput::GetPhotolysisRate
GetPhotolysisRate(output, reaction_name, level) ==
    LET i == FirstNamed(output.photolysis_rates, reaction_name)
    IN  IF i = 0 THEN Thrown
        ELSE IF level > Len(output.photolysis_rates[i].rates) THEN Thrown
        ELSE Returned(output.photolysis_rates[i].rates[level])

\* ModelOutput::GetActinicFlux
GetActinicFlux(output, level) ==
    IF level > Len(output.radiation_field.direct_irradiance) THEN <<>>
    ELSE TotalActinicFlux(output.radiation_field, level)

\* std::min over the three sizes
MinOf(a, b, c) == CHOOSE m \in {a, b, c} : m <= a /\ m <= b /\ m <= c

\* ModelOutput::GetBandActinicFlux
GetBandActinicFlux(output, level, wl_min, wl_max) ==
    LET flux == GetActinicFlux(output, level)
        midpoints == output.wavelength_grid.midpoints
        deltas == output.wavelength_grid.deltas
        n == MinOf(Len(flux), Len(midpoints), Len(deltas))
    IN  SumSeq([i \in 1..n |->
            IF QLeq(wl_min, midpoints[i]) /\ QLeq(midpoints[i], wl_max)
            THEN QMul(flux[i], QAbs(deltas[i])) ELSE Zero])

\* ModelOutput::GetUVBActinicFlux
GetUVBActinicFlux(output, level) == GetBandActinicFlux(output, level, Q(280, 1), Q(315, 1))

\* ModelOutput::GetUVAActinicFlux
GetUVAActinicFlux(output, level) == GetBandActinicFlux(output, level, Q(315, 1), Q(400, 1))

\* a default-constructed ModelOutput
EmptyOutput ==
    [wavelength_grid |-> NoGrid,
     radiation_field |-> [direct_irradiance |-> <<>>, actinic_flux_direct |-> <<>>,
                          actinic_flux_diffuse |-> <<>>],
     photolysis_rates |-> <<>>]

\* a field of two levels whose direct and diffuse actinic flux are the same
\* at both levels but for a factor of two
MoField(direct, diffuse) ==
    [direct_irradiance |-> <<direct, direct>>,
     actinic_flux_direct |-> <<direct, [j \in 1..Len(direct) |-> QMul(Two, direct[j])]>>,
     actinic_flux_diffuse |-> <<diffuse, diffuse>>]

\* the wavelength grids and fields of the calculations: a grid with a cell
\* centred on 315 nm, and one with an edge there
MoCalculations ==
    { [wavelength_grid |-> NewGrid(<<Q(270, 1), Q(290, 1), Q(310, 1), Q(320, 1), Q(400, 1)>>),
       radiation_field |-> MoField(<<One, Two, One, Two>>, <<Zero, One, One, Zero>>)],
      [wavelength_grid |-> NewGrid(<<Q(280, 1), Q(315, 1), Q(400, 1)>>),
       radiation_field |-> MoField(<<One, Two>>, <<One, Zero>>)] }

\* the reactions the callers register: two under one name
MoReactions ==
    { [name |-> "O3 -> O2 + O(1D)", cross_section |-> One, quantum_yield |-> One],
      [name |-> "O3 -> O2 + O(1D)", cross_section |-> Two, quantum_yield |-> Half],
      [name |-> "NO2 -> NO + O(3P)", cross_section |-> Two, quantum_yield |-> One] }

MoNames == {r.name : r \in MoReactions} \cup {"O2 -> O + O"}

MoLevels == 1..3

\* the band limits the callers ask for, in nm
MoWavelengths == {Q(280, 1), Q(315, 1), Q(400, 1)}

MoInit ==
    /\ mo = [photolysis_reactions |-> <<>>, output |-> EmptyOutput]
    /\ moRes = [op |-> "new"]

\* TuvModel::AddPhotolysisReaction
MoAddPhotolysisReaction(r) ==
    /\ Len(mo.photolysis_reactions) < MaxReactions
    /\ mo' = [mo EXCEPT !.photolysis_reactions =
                 AddReaction(@, r.name, r.cross_section, r.quantum_yield)]
    /\ moRes' = [op |-> "AddPhotolysisReaction"]

\* output = model.Calculate(...): the grid, the solver's field, the rates
MoCalculate(c) ==
    /\ mo' = [mo EXCEPT !.output =
                 [wavelength_grid |-> c.wavelength_grid,
                  radiation_field |-> c.radiation_field,
                  photolysis_rates |-> CalculateAll(mo.photolysis_reactions,
                                          c.radiation_field, c.wavelength_grid)]]
    /\ moRes' = [op |-> "Calculate"]

\* output.GetPhotolysisRate(reaction_name, level)
MoGetPhotolysisRate(reaction_name, level) ==
    /\ moRes' = [op |-> "GetPhotolysisRate", reaction_name |-> reaction_name,
                 level |-> level,
                 result |-> GetPhotolysisRate(mo.output, reaction_name, level)]
    /\ UNCHANGED mo

\* output.GetBandActinicFlux(level, wl_min, wl_max)
MoGetBandActinicFlux(level, wl_min, wl_max) ==
    /\ moRes' = [op |-> "GetBandActinicFlux", level |-> level,
                 wl_min |-> wl_min, wl_max |-> wl_max,
                 result |-> GetBandActinicFlux(mo.output, level, wl_min, wl_max)]
    /\ UNCHANGED mo

MoNext ==
    /\ \/ \E r \in MoReactions : MoAddPhotolysisReaction(r)
       \/ \E c \in MoCalculations : MoCalculate(c)
       \/ \E name \in MoNames, level \in MoLevels : MoGetPhotolysisRate(name, level)
       \/ \E level \in MoLevels, wl_min, wl_max \in MoWavelengths :
            MoGetBandActinicFlux(level, wl_min, wl_max)
    /\ UNCHANGED <<whVars, mgVars, pfVars, rsVars, svVars, tmVars, usVars, gdVars, phVars, xqVars, sgVars>>

-----------------------------------------------------------------------------
(* Specifications: one per component.  Each starts the component it        *)
(* exercises in any of its constructed states and holds the others in one  *)
(* freshly constructed state.                                              *)

WhIdle ==
    /\ wh = EmptyWarehouse("GridWarehouse")
    /\ whIssued = {}
    /\ whRes = [op |-> "new"]

MgIdle ==
    /\ mg = NewMutableGrid(<<Zero, One>>)
    /\ mgOp = [op |-> "new", threw |-> FALSE]

PfIdle ==
    /\ pf = ProfileFromMid("Profile", <<One>>)
    /\ pfGrid = NoGrid
    /\ pfOp = [op |-> "new", threw |-> FALSE]

RsIdle ==
    /\ rs = [a \in RsIds |-> EmptyState]
    /\ rsOp = [op |-> "new", target |-> "A", prev |-> EmptyState, other |-> EmptyState,
               threw |-> FALSE, calls |-> 0]

TmIdle ==
    /\ tm = [config |-> ModelConfig(1, QNeg(One)), radiators |-> <<>>]
    /\ tmRef = tm
    /\ tmOut = DefaultModelOutput
    /\ tmOp = [op |-> "new", threw |-> FALSE,
               solar_zenith_angle |-> 0, surface_albedo |-> <<>>]
    /\ tmAlbedo = NoAlbedoCall

UsIdle ==
    /\ us = [wavelength_grid |-> <<>>, altitude_grid |-> <<>>,
             density_profile |-> <<>>, temperature_profile |-> <<>>]
    /\ usRes = [op |-> "new", outcome |-> "returned", state |-> EmptyState]

GdIdle ==
    /\ gd = DefaultGrid
    /\ gdOp = [op |-> "Grid()", threw |-> FALSE, value |-> Zero, edges |-> <<>>,
               result |-> <<>>]

PhIdle ==
    /\ ph = [input |-> DefaultSolverInput, temperature_profile |-> <<>>,
             air_density_profile |-> <<>>]
    /\ phRes = PhNothing

XqIdle ==
    /\ xq = [variant |-> [type |-> "O3O1DQuantumYield"], wavelength_grid |-> NoGrid,
             temperature |-> Q(298, 1)]
    /\ xqRes = [calculated |-> FALSE, values |-> <<>>]

SgIdle ==
    /\ sg = NewSphericalGeometry(DefaultGrid, Q(13, 1))
    /\ sgRes = [op |-> "new", outcome |-> "returned", out_of_range |-> FALSE,
                result |-> NoSlantPath]

MoIdle ==
    /\ mo = [photolysis_reactions |-> <<>>, output |-> EmptyOutput]
    /\ moRes = [op |-> "new"]

InitWarehouse == WhInit /\ MgIdle /\ PfIdle /\ RsIdle /\ RwInit /\ SvInit /\ TmIdle /\ UsIdle /\ GdIdle /\ PhIdle /\ XqIdle /\ SgIdle /\ MoIdle

InitMutableGrid == WhIdle /\ MgInit /\ PfIdle /\ RsIdle /\ RwInit /\ SvInit /\ TmIdle /\ UsIdle /\ GdIdle /\ PhIdle /\ XqIdle /\ SgIdle /\ MoIdle

InitProfile == WhIdle /\ MgIdle /\ PfInit /\ RsIdle /\ RwInit /\ SvInit /\ TmIdle /\ UsIdle /\ GdIdle /\ PhIdle /\ XqIdle /\ SgIdle /\ MoIdle

InitRadiatorState == WhIdle /\ MgIdle /\ PfIdle /\ RsInit /\ RwInit /\ SvInit /\ TmIdle /\ UsIdle /\ GdIdle /\ PhIdle /\ XqIdle /\ SgIdle /\ MoIdle

InitRadiatorWarehouse == WhIdle /\ MgIdle /\ PfIdle /\ RsIdle /\ RwInit /\ SvInit /\ TmIdle /\ UsIdle /\ GdIdle /\ PhIdle /\ XqIdle /\ SgIdle /\ MoIdle

InitSolver == WhIdle /\ MgIdle /\ PfIdle /\ RsIdle /\ RwInit /\ SvInit /\ TmIdle /\ UsIdle /\ GdIdle /\ PhIdle /\ XqIdle /\ SgIdle /\ MoIdle

InitTuvModel == WhIdle /\ MgIdle /\ PfIdle /\ RsIdle /\ RwInit /\ SvInit /\ TmInit /\ UsIdle /\ GdIdle /\ PhIdle /\ XqIdle /\ SgIdle /\ MoIdle

InitUpdateState == WhIdle /\ MgIdle /\ PfIdle /\ RsIdle /\ RwInit /\ SvInit /\ TmIdle /\ UsInit /\ GdIdle /\ PhIdle /\ XqIdle /\ SgIdle /\ MoIdle

InitGrid == WhIdle /\ MgIdle /\ PfIdle /\ RsIdle /\ RwInit /\ SvInit /\ TmIdle /\ UsIdle /\ GdInit /\ PhIdle /\ XqIdle /\ SgIdle /\ MoIdle

InitPhotolysis == WhIdle /\ MgIdle /\ PfIdle /\ RsIdle /\ RwInit /\ SvInit /\ TmIdle /\ UsIdle /\ GdIdle /\ PhInit /\ XqIdle /\ SgIdle /\ MoIdle

InitCrossSection == WhIdle /\ MgIdle /\ PfIdle /\ RsIdle /\ RwInit /\ SvInit /\ TmIdle /\ UsIdle /\ GdIdle /\ PhIdle /\ XqInit /\ SgIdle /\ MoIdle

InitSphericalGeometry == WhIdle /\ MgIdle /\ PfIdle /\ RsIdle /\ RwInit /\ SvInit /\ TmIdle /\ UsIdle /\ GdIdle /\ PhIdle /\ XqIdle /\ SgInit /\ MoIdle

InitModelOutput == WhIdle /\ MgIdle /\ PfIdle /\ RsIdle /\ RwInit /\ SvInit /\ TmIdle /\ UsIdle /\ GdIdle /\ PhIdle /\ XqIdle /\ SgIdle /\ MoInit

SpecWarehouse == InitWarehouse /\ [][WhNext]_vars

SpecMutableGrid == InitMutableGrid /\ [][MgNext]_vars

SpecProfile == InitProfile /\ [][PfNext]_vars

SpecRadiatorState == InitRadiatorState /\ [][RsNext]_vars

SpecRadiatorWarehouse == InitRadiatorWarehouse /\ [][RwNext]_vars

SpecSolver == InitSolver /\ [][SvNext]_vars

SpecTuvModel == InitTuvModel /\ [][TmNext]_vars

SpecUpdateState == InitUpdateState /\ [][UsNext]_vars

SpecGrid == InitGrid /\ [][GdNext]_vars

SpecPhotolysis == InitPhotolysis /\ [][PhNext]_vars

SpecCrossSection == InitCrossSection /\ [][XqNext]_vars

SpecSphericalGeometry == InitSphericalGeometry /\ [][SgNext]_vars

SpecModelOutput == InitModelOutput /\ [][MoNext]_vars

Init == WhInit /\ MgInit /\ PfInit /\ RsInit /\ RwInit /\ SvInit /\ TmInit /\ UsInit /\ GdInit /\ PhInit /\ XqInit /\ SgInit /\ MoInit

Next == WhNext \/ MgNext \/ PfNext \/ RsNext \/ RwNext \/ SvNext \/ TmNext \/ UsNext \/ GdNext \/ PhNext \/ XqNext \/ SgNext \/ MoNext

Spec == Init /\ [][Next]_vars

-----------------------------------------------------------------------------
(* Properties.                                                             *)

\* C1: TuvModel keeps no persistent state across Calculate calls: whatever
\* Calculate calls came before, Calculate(chi) returns what the same call
\* returns on a model that received the same constructor and setter calls and
\* no Calculate call.
C1_NoPersistentState ==
    tmOp.op = "Calculate(chi)" /\ ~tmOp.threw
        => tmOut = CalculateOutput(tmRef, tmOut.solar_zenith_angle)

\* C2: a handle returned by Add(e) stays valid for the warehouse's lifetime:
\* after any later Add and Clear calls, Get(handle) returns e.
C2_HandlesStayValid ==
    \A r \in whIssued : GetByHandle(wh, r.handle) = Returned(r.entity)

\* midpoints and deltas are those of the current edges
InSync(g) ==
    /\ Len(g.midpoints) = g.n_cells
    /\ Len(g.deltas) = g.n_cells
    /\ \A i \in 1..g.n_cells :
         /\ g.midpoints[i] = QDiv(QAdd(g.edges[i], g.edges[i + 1]), Two)
         /\ g.deltas[i] = QSub(g.edges[i + 1], g.edges[i])

LayerDensitiesAgree(p, g) ==
    HasLayerDensities(p) =>
        /\ g.n_cells = p.n_cells
        /\ SumSeq(p.layer) = SumSeq([i \in 1..p.n_cells |-> QMul(p.mid[i], g.deltas[i])])

\* C4 as stated: whenever HasLayerDensities() is true, after any sequence of
\* construction, SetMidValue, SetMidValues, SetEdgeValues, Update,
\* UpdateFromEdges, CalculateLayerDensities and CalculateBurden calls, the
\* cached layer densities agree with the current mid values.
C4_LayerDensitiesAgree == LayerDensitiesAgree(pf, pfGrid)

\* C4 as amended: the agreement holds at construction, every call other than
\* SetMidValue keeps it, and Update and UpdateFromEdges restore it.
C4_AgreeExceptAfterSetMidValue ==
    [][(\/ LayerDensitiesAgree(pf, pfGrid) /\ pfOp'.op # "SetMidValue"
        \/ pfOp'.op \in {"Update", "UpdateFromEdges"})
          => LayerDensitiesAgree(pf', pfGrid')]_vars

\* layer densities computed on a MutableProfile whose mid values were edited
\* one at a time
C4_Witness ==
    /\ pf.kind = "MutableProfile"
    /\ pfOp = [op |-> "CalculateLayerDensities", threw |-> FALSE]
    /\ pf.mid = <<Two, Two>>
    /\ pf.layer = <<Two, Two>>

\* C5: whenever a Profile's burden densities are present, burden[n_cells] = 0
\* and burden[i] = burden[i+1] + layer_density[i] for the profile's current
\* layer densities, after any CalculateLayerDensities and CalculateBurden
\* calls, different grids included.
C5_BurdenRecurrence ==
    (pf.kind = "Profile" /\ HasBurdenDensities(pf)) =>
        /\ pf.burden[pf.n_cells + 1] = Zero
        /\ \A i \in 1..pf.n_cells : pf.burden[i] = QAdd(pf.burden[i + 1], pf.layer[i])

\* every entry of a [level][wavelength] array is a number and not negative
NonNegativeArray(a) ==
    \A i \in 1..Len(a) : \A j \in 1..Len(a[i]) : ~IsNaN(a[i][j]) /\ QLeq(Zero, a[i][j])

\* C6: for a non-empty state with tau >= 0, omega in [0,1], g in [-1,1]
\* (the boundary values included), albedo in [0,1], F_TOA >= 0 and mu0 > 0,
\* the five arrays of the RadiationField Solve returns hold no NaN and no
\* negative value.
C6_FieldNonNegative ==
    (/\ sv.radiator_state # Nullptr
     /\ ~Empty(sv.radiator_state[1])
     /\ QLess(Zero, Mu0(sv.solar_zenith_angle))) =>
        /\ NonNegativeArray(field.direct_irradiance)
        /\ NonNegativeArray(field.diffuse_up)
        /\ NonNegativeArray(field.diffuse_down)
        /\ NonNegativeArray(field.actinic_flux_direct)
        /\ NonNegativeArray(field.actinic_flux_diffuse)

AddOrders(n) == {p \in [1..n -> 1..n] : \A i, j \in 1..n : p[i] = p[j] => i = j}

InRange(s) ==
    \A i \in 1..NumberOfLayers(s) : \A j \in 1..NumberOfWavelengths(s) :
        /\ QLeq(Zero, Cell(s, i, j).omega) /\ QLeq(Cell(s, i, j).omega, One)
        /\ QLeq(QNeg(One), Cell(s, i, j).g) /\ QLeq(Cell(s, i, j).g, One)

\* C8: from states with tau >= 0, omega in [0,1] and g in [-1,1], every state
\* reached by Accumulate and Scale calls has omega in [0,1] and g in [-1,1] in
\* every cell.
C8_RangesPreserved == \A a \in RsIds : InRange(rs[a])

SameShape(s1, s2) ==
    /\ NumberOfLayers(s1) = NumberOfLayers(s2)
    /\ NumberOfWavelengths(s1) = NumberOfWavelengths(s2)

\* the combined cell the radiative-transfer rules give for cells a and b
MixedCell(a, b) ==
    LET tau == QAdd(a.tau, b.tau)
        scatter == QAdd(QMul(a.tau, a.omega), QMul(b.tau, b.omega))
    IN  [tau |-> tau,
         omega |-> IF tau = Zero THEN Zero ELSE QDiv(scatter, tau),
         g |-> IF scatter = Zero THEN Zero
               ELSE QDiv(QAdd(QMul(QMul(a.tau, a.omega), a.g), QMul(QMul(b.tau, b.omega), b.g)),
                         scatter)]

\* C9: A.Accumulate(B) on non-empty states of one shape sets, in every cell,
\* tau' = tau_A + tau_B, omega' = (tau_A omega_A + tau_B omega_B) / tau' (0 when
\* tau' = 0) and g' = (tau_A omega_A g_A + tau_B omega_B g_B) / (tau_A omega_A +
\* tau_B omega_B) (0 when that sum is 0), and leaves B unchanged.
C9_AccumulateFormulas ==
    (/\ rsOp.op = "Accumulate"
     /\ ~Empty(rsOp.prev) /\ ~Empty(rsOp.other)
     /\ SameShape(rsOp.prev, rsOp.other)) =>
        /\ \A i \in 1..NumberOfLayers(rsOp.prev) : \A j \in 1..NumberOfWavelengths(rsOp.prev) :
             Cell(rs[rsOp.target], i, j) = MixedCell(Cell(rsOp.prev, i, j), Cell(rsOp.other, i, j))
        /\ \A b \in RsIds \ {rsOp.target} : rs[b] = rsOp.other

\* C10 as stated: Accumulate throws and leaves the receiver unchanged whenever
\* the two shapes differ, except that an empty receiver adopts the other state.
C10_ThrowsOnEveryMismatch ==
    rsOp.op = "Accumulate" =>
        IF Empty(rsOp.prev) THEN ~rsOp.threw /\ rs[rsOp.target] = rsOp.other
        ELSE IF ~SameShape(rsOp.prev, rsOp.other)
             THEN rsOp.threw /\ rs[rsOp.target] = rsOp.prev
             ELSE ~rsOp.threw

\* C10 as amended: Accumulate throws and leaves the receiver unchanged whenever
\* both states are non-empty and their shapes differ; accumulating an empty
\* state changes nothing and does not throw; an empty receiver adopts a
\* non-empty other state.
C10_ThrowsOnNonEmptyMismatch ==
    rsOp.op = "Accumulate" =>
        IF Empty(rsOp.other) THEN ~rsOp.threw /\ rs[rsOp.target] = rsOp.prev
        ELSE IF Empty(rsOp.prev) THEN ~rsOp.threw /\ rs[rsOp.target] = rsOp.other
        ELSE IF ~SameShape(rsOp.prev, rsOp.other)
             THEN rsOp.threw /\ rs[rsOp.target] = rsOp.prev
             ELSE ~rsOp.threw

\* a [1][2] state accumulated into a [2][1] state: the call threw
C10_Witness ==
    /\ rsOp.op = "Accumulate"
    /\ rsOp.threw
    /\ NumberOfLayers(rsOp.prev) = 2
    /\ NumberOfWavelengths(rsOp.other) = 2
    /\ rs[rsOp.target] = rsOp.prev

\* one of the three Calculate overloads was the last call
CalculateCalled == tmOp.op \in {"Calculate()", "Calculate(chi)", "Calculate(date)"}

\* ModelConfig::IsValid's conditions on the zenith angle and the albedo,
\* extended to the entries of the albedo spectrum
BoundsValid(config, solar_zenith_angle) ==
    /\ solar_zenith_angle >= 0 /\ solar_zenith_angle <= 180
    /\ QLeq(Zero, config.surface_albedo) /\ QLeq(config.surface_albedo, One)
    /\ \A j \in DOMAIN config.surface_albedo_spectrum :
          QLeq(Zero, config.surface_albedo_spectrum[j])
              /\ QLeq(config.surface_albedo_spectrum[j], One)

\* C11: Calculate reports an error and returns no output when the solar
\* zenith angle is outside [0, 180] or the configured surface albedo (the
\* uniform value or an entry of the spectrum) is outside [0, 1].
C11_InvalidBoundsReported ==
    CalculateCalled /\ ~BoundsValid(tm.config, tmOp.solar_zenith_angle)
        => tmOp.threw /\ tmOut = DefaultModelOutput

\* a configured profile whose length is not the altitude grid's layer count, or
\* a configured albedo spectrum whose length is not the wavelength grid's cell
\* count (an empty vector is not configured)
LengthsDisagree(config) ==
    \/ \E values \in {config.temperature_profile, config.air_density_profile,
                       config.ozone_profile} :
          values # <<>> /\ Len(values) # TmLayers
    \/ /\ config.surface_albedo_spectrum # <<>>
       /\ Len(config.surface_albedo_spectrum) # TmWavelengths

\* C12: whenever a configured temperature, air-density or ozone profile has a
\* length different from the layer count, or the albedo spectrum a length
\* different from the wavelength count, Calculate reports an error instead of
\* returning an output computed with substituted values.
C12_LengthMismatchReported ==
    CalculateCalled /\ LengthsDisagree(tm.config) => tmOp.threw

\* the density or temperature profile has a cell count different from the
\* altitude grid's
SizesDisagree(in) ==
    /\ ~KeyAbsent(in)
    /\ \/ in.density_profile[1].n_cells # in.altitude_grid[1].n_cells
       \/ in.temperature_profile[1].n_cells # in.altitude_grid[1].n_cells

\* C13: UpdateState fails with an error when a requested grid or profile key
\* is absent from the warehouses, and fails with an error when the density or
\* temperature profile's cell count differs from the altitude grid's.
C13_UpdateStateFails ==
    usRes.op = "UpdateState" /\ (KeyAbsent(us) \/ SizesDisagree(us))
        => usRes.outcome = "threw"

\* the first half of C13 on its own: an absent key makes UpdateState throw
C13_MissingKeyThrows ==
    usRes.op = "UpdateState" /\ KeyAbsent(us) => usRes.outcome = "threw"

\* C14: Add with an entity whose "name|units" key is already present fails,
\* and leaves the warehouse's size, key order and stored entities, and what
\* every previously issued handle resolves to, as they were before the call.
C14_DuplicateAddChangesNothing ==
    [][whRes'.op = "Add" /\ HasKey(wh, Key(whRes'.arg))
          => /\ whRes'.result = Thrown
             /\ wh' = wh
             /\ whIssued' = whIssued
             /\ \A r \in whIssued : GetByHandle(wh', r.handle) = GetByHandle(wh, r.handle)]_vars

\* an Add has just been refused for an entity that differs from the one stored
\* under its key
C14_Witness ==
    /\ whRes.op = "Add" /\ whRes.result = Thrown
    /\ \E i \in 1..Len(wh.items) :
          Key(wh.items[i]) = Key(whRes.arg) /\ wh.items[i] # whRes.arg
    /\ whIssued # {}

\* the sizes and the derived values of a Grid agree with its n_cells and edges
WellFormed(g) ==
    /\ Len(g.edges) = g.n_cells + 1
    /\ Len(g.midpoints) = g.n_cells
    /\ Len(g.deltas) = g.n_cells
    /\ \A i \in 1..g.n_cells :
          /\ g.midpoints[i] = QDiv(QAdd(g.edges[i], g.edges[i + 1]), Two)
          /\ g.deltas[i] = QSub(g.edges[i + 1], g.edges[i])

\* C15: every Grid that can be constructed (default constructor, edge-list
\* constructor, EquallySpaced, LogarithmicallySpaced, MutableGrid::ToGrid) has
\* n_cells + 1 edges, n_cells midpoints, midpoints[i] = (edges[i] + edges[i+1]) / 2
\* and deltas[i] = edges[i+1] - edges[i] for every cell i.
C15_EveryGridWellFormed == WellFormed(gd)

\* the same for every Grid that was not made by the default constructor
C15_ConstructedFromEdgesWellFormed == gd # DefaultGrid => WellFormed(gd)

\* edges in ascending order, or in descending order
Ascending(edges) == \A i \in 1..(Len(edges) - 1) : QLeq(edges[i], edges[i + 1])

Descending(edges) == \A i \in 1..(Len(edges) - 1) : QLeq(edges[i + 1], edges[i])

\* v lies in the half-open interval from edge i (included) to edge i + 1
\* (excluded) of cell i, counted from one
InCell(g, i, v) ==
    \/ QLeq(g.edges[i], v) /\ QLess(v, g.edges[i + 1])
    \/ QLeq(v, g.edges[i]) /\ QLess(g.edges[i + 1], v)

\* v is between the first and the last edge, in either order
InRangeOfEdges(g, v) ==
    LET front == g.edges[1]
        back == g.edges[Len(g.edges)]
    IN  \/ QLeq(front, v) /\ QLeq(v, back)
        \/ QLeq(back, v) /\ QLeq(v, front)

\* what C16 requires of FindCell(v) = result on grid g
FindCellAsSpecified(g, v, result) ==
    IF g.n_cells = 0 \/ ~InRangeOfEdges(g, v) THEN result = <<>>
    ELSE /\ result # <<>>
         /\ result[1] \in 0..(g.n_cells - 1)
         /\ \/ InCell(g, result[1] + 1, v)
            \/ v = g.edges[Len(g.edges)] /\ result[1] = g.n_cells - 1

\* C16: on a Grid with ascending or descending edges FindCell(v) returns the
\* index i for which v lies in the half-open interval of edges i and i + 1,
\* nothing when v is out of the range of the edges or the grid has no cell,
\* and the last cell at the upper boundary.
C16_FindCell ==
    gdOp.op = "FindCell" /\ (Ascending(gd.edges) \/ Descending(gd.edges))
        => FindCellAsSpecified(gd, gdOp.value, gdOp.result)

\* the same for every value that is not NaN
C16_FindCellOfNumbers ==
    gdOp.op = "FindCell" /\ (Ascending(gd.edges) \/ Descending(gd.edges))
                         /\ ~IsNaN(gdOp.value)
        => FindCellAsSpecified(gd, gdOp.value, gdOp.result)

\* a RadiationField of n_levels by n_wavelengths whose five arrays are zero
ZeroField(f, n_levels, n_wavelengths) == f = FieldInitialize(n_levels, n_wavelengths)

\* C17: Solve returns an all-zero field of shape [n_layers + 1][n_wavelengths]
\* whenever mu0 <= 0, so that Calculate at a zenith angle of 90 degrees or
\* more returns an all-zero radiation field.
C17_ZeroFieldFromNinetyDegrees ==
    CalculateCalled /\ ~tmOp.threw /\ tmOp.solar_zenith_angle >= 90
        => ZeroField(tmOut.radiation_field, TmLayers + 1, TmWavelengths)

\* the solver's half of C17: a non-empty input with mu0 <= 0 gives the zero
\* field of the input's shape
C17_SolveZeroBelowHorizon ==
    /\ sv.radiator_state # Nullptr
    /\ ~Empty(sv.radiator_state[1])
    /\ QLeq(Mu0(sv.solar_zenith_angle), Zero)
    => ZeroField(field, NumberOfLayers(sv.radiator_state[1]) + 1,
                 NumberOfWavelengths(sv.radiator_state[1]))

\* the slant factors Solve uses: the geometry's enhancement factors, or 1 / mu0
SlantFactorsOf(input) ==
    IF input.geometry # Nullptr THEN input.geometry[1]
    ELSE [k \in 1..NumberOfLayers(input.radiator_state[1]) |->
             QDiv(One, Mu0(input.solar_zenith_angle))]

\* the slant-weighted optical depth of wavelength j above level L (the layers
\* k >= L)
RECURSIVE SlantDepthAbove(_, _, _, _)
SlantDepthAbove(state, slant_factors, L, j) ==
    IF L > NumberOfLayers(state) THEN Zero
    ELSE QAdd(QMul(state.optical_depth[L][j], slant_factors[L]),
              SlantDepthAbove(state, slant_factors, L + 1, j))

\* Solve ran the two-stream solution on input
SolvedByDay(input) ==
    /\ input.radiator_state # Nullptr
    /\ ~Empty(input.radiator_state[1])
    /\ QLess(Zero, Mu0(input.solar_zenith_angle))

\* every layer has omega = 0 at wavelength j
PureAbsorber(state, j) ==
    \A k \in 1..NumberOfLayers(state) : state.single_scattering_albedo[k][j] = Zero

\* C18: in an atmosphere whose layers all have omega = 0 the direct irradiance
\* at level i is F_TOA * mu0 * exp(-sum over the layers k >= i of tau_k * e_k),
\* so the surface value depends on the slant-weighted total optical depth only.
C18_BeerLambert ==
    SolvedByDay(sv) =>
        LET state == sv.radiator_state[1]
        IN  \A j \in 1..NumberOfWavelengths(state) :
                PureAbsorber(state, j) =>
                    \A L \in 1..(NumberOfLayers(state) + 1) :
                        field.direct_irradiance[L][j] =
                            QMul(QMul(ElementOr(sv.extraterrestrial_flux, j, One),
                                      Mu0(sv.solar_zenith_angle)),
                                 ExpOf(QNeg(SlantDepthAbove(state, SlantFactorsOf(sv), L, j))))

\* Solve has run by day on two absorbing layers that both attenuate the beam
C18_Witness ==
    /\ SolvedByDay(sv)
    /\ NumberOfLayers(sv.radiator_state[1]) = 2
    /\ PureAbsorber(sv.radiator_state[1], 1)
    /\ sv.radiator_state[1].optical_depth[1][1] = One
    /\ sv.radiator_state[1].optical_depth[2][1] = One
    /\ sv.solar_zenith_angle = 60
    /\ QLess(field.direct_irradiance[1][1], field.direct_irradiance[2][1])
    /\ QLess(field.direct_irradiance[2][1], field.direct_irradiance[3][1])

\* input with every entry of its extraterrestrial flux multiplied by k
WithFluxScaled(input, k) ==
    IF input.extraterrestrial_flux = Nullptr THEN input
    ELSE [input EXCEPT !.extraterrestrial_flux =
             PointerTo([j \in 1..Len(input.extraterrestrial_flux[1]) |->
                           QMul(k, input.extraterrestrial_flux[1][j])])]

ScaledArray(a, k) == [i \in 1..Len(a) |-> [j \in 1..Len(a[i]) |-> QMul(k, a[i][j])]]

\* the five arrays of f multiplied by k
ScaledField(f, k) ==
    [direct_irradiance |-> ScaledArray(f.direct_irradiance, k),
     diffuse_up |-> ScaledArray(f.diffuse_up, k),
     diffuse_down |-> ScaledArray(f.diffuse_down, k),
     actinic_flux_direct |-> ScaledArray(f.actinic_flux_direct, k),
     actinic_flux_diffuse |-> ScaledArray(f.actinic_flux_diffuse, k)]

\* factors k >= 0 the flux is multiplied by
FluxFactors == {Zero, Half, Two}

\* C19: for a fixed atmosphere, geometry, albedo and reaction, multiplying
\* every entry of the extraterrestrial flux by k >= 0 multiplies every entry
\* of the five RadiationField arrays and every J(reaction, z) by k.
C19_LinearInFlux ==
    /\ phRes.calculated
    /\ ph.input.extraterrestrial_flux # Nullptr
    /\ ph.input.extraterrestrial_flux # PointerTo(<<>>)
    =>  \A k \in FluxFactors :
            LET scaled == Solve(WithFluxScaled(ph.input, k))
                grid == PhGrid(NumberOfWavelengths(ph.input.radiator_state[1]))
            IN  /\ scaled = ScaledField(phRes.field, k)
                /\ PhotolysisRates(scaled, grid, ph.temperature_profile)
                       = [level \in 1..Len(phRes.rates) |-> QMul(k, phRes.rates[level])]

\* the same for the inputs whose flux has an entry for every wavelength
C19_LinearInCompleteFlux ==
    /\ phRes.calculated
    /\ ph.input.extraterrestrial_flux # Nullptr
    /\ Len(ph.input.extraterrestrial_flux[1]) >= NumberOfWavelengths(ph.input.radiator_state[1])
    => \A k \in FluxFactors :
            LET scaled == Solve(WithFluxScaled(ph.input, k))
                grid == PhGrid(NumberOfWavelengths(ph.input.radiator_state[1]))
            IN  /\ scaled = ScaledField(phRes.field, k)
                /\ PhotolysisRates(scaled, grid, ph.temperature_profile)
                       = [level \in 1..Len(phRes.rates) |-> QMul(k, phRes.rates[level])]


\* the reference wavelength range of a variant: <<min, max>>, or <<>> when it has none
ReferenceRange(v) ==
    CASE v.type \in {"O3O1DQuantumYield", "O3O3PQuantumYield"} -> <<Q(175, 1), Q(400, 1)>>
      [] v.type = "ConstantQuantumYield" -> <<>>
      [] OTHER -> IF v.wavelengths = <<>> THEN <<>>
                  ELSE <<v.wavelengths[1], v.wavelengths[Len(v.wavelengths)]>>

OutsideReferenceRange(v, wavelength) ==
    /\ ReferenceRange(v) # <<>>
    /\ \/ QLess(wavelength, ReferenceRange(v)[1])
       \/ QLess(ReferenceRange(v)[2], wavelength)

IsQuantumYield(v) ==
    v.type \in {"ConstantQuantumYield", "BaseQuantumYield", "O3O1DQuantumYield",
                "O3O3PQuantumYield"}

ValueInBounds(v, wavelength, value) ==
    /\ OutsideReferenceRange(v, wavelength) => value = Zero
    /\ IF IsQuantumYield(v) THEN QLeq(Zero, value) /\ QLeq(value, One)
       ELSE QLeq(Zero, value)

\* C20: for every variant and every cell of the wavelength grid, the value
\* Calculate returns is exactly 0 when the cell's wavelength lies outside the
\* variant's reference wavelength range, every yield lies in [0, 1] and every
\* cross-section is >= 0.
C20_ValuesInBounds ==
    xqRes.calculated =>
        /\ Len(xqRes.values) = xq.wavelength_grid.n_cells
        /\ \A i \in 1..Len(xqRes.values) :
              ValueInBounds(xq.variant, xq.wavelength_grid.midpoints[i], xqRes.values[i])

\* What does hold: the variants that clamp (the O3 and O2 cross-sections, the
\* tabulated yield and the O3 -> O(1D) yield) keep the three bounds on every
\* cell, whatever the tabulated values are.
C20_ClampingVariantsInBounds ==
    /\ xqRes.calculated
    /\ xq.variant.type \in {"O3CrossSection", "O2CrossSection", "BaseQuantumYield",
                            "O3O1DQuantumYield"}
    => \A i \in 1..Len(xqRes.values) :
          ValueInBounds(xq.variant, xq.wavelength_grid.midpoints[i], xqRes.values[i])

\* The O3 -> O(3P) yield with its built-in parameterisation on a cell outside
\* 175-400 nm: the returned value is 1.
C20_O3POneOutsideBands ==
    /\ xqRes.calculated
    /\ xq.variant.type = "O3O3PQuantumYield"
    => \A i \in 1..Len(xqRes.values) :
          OutsideReferenceRange(xq.variant, xq.wavelength_grid.midpoints[i])
              => xqRes.values[i] = One


\* a twilight Calculate that returned a result with at least one layer
TwilightCalculated ==
    /\ sgRes.op = "Calculate"
    /\ sgRes.outcome = "returned"
    /\ sgRes.result.zenith_angle > 90
    /\ sg.n_levels >= 2

\* altitude of level i, and of the top of the atmosphere
LevelAltitude(i) == QSub(sg.radii[i], sg.earth_radius)

TopAltitude == LevelAltitude(sg.n_levels)

\* h_s = R * (1 / |cos chi| - 1), clamped to the top of the atmosphere
ClampedScreeningHeight(chi) ==
    LET h_s == QMul(sg.earth_radius, QSub(QDiv(One, QAbs(CosDeg(chi))), One))
    IN  IF QLess(TopAltitude, h_s) THEN TopAltitude ELSE h_s

GridCellCount == IF sg.n_levels = 0 THEN 0 ELSE sg.n_levels - 1

SizedToCellCount(result) ==
    /\ Len(result.enhancement_factor) = GridCellCount
    /\ Len(result.air_mass) = GridCellCount
    /\ Len(result.sunlit) = GridCellCount

\* C30: Calculate reads and writes only indices inside its result arrays and
\* sizes enhancement_factor, air_mass and sunlit to the grid's cell count,
\* for every altitude grid and every solar zenith angle, a grid with a single
\* edge and the default-constructed grid included.
C30_IndicesInsideArrays ==
    sgRes.op = "Calculate" =>
        /\ sgRes.outcome = "returned"
        /\ ~sgRes.out_of_range
        /\ SizedToCellCount(sgRes.result)

\* What does hold: on a grid with at least one cell, and on a single-edge
\* grid at 85 degrees or more, Calculate stays inside its arrays and sizes
\* them to the cell count.
C30_InsideArraysWithCells ==
    /\ sgRes.op = "Calculate"
    /\ sg.n_levels >= 2 \/ (sg.n_levels = 1 /\ sgRes.result.zenith_angle >= 85)
    => /\ sgRes.outcome = "returned"
       /\ ~sgRes.out_of_range
       /\ SizedToCellCount(sgRes.result)


\* the rates were computed on a field that has levels
RatesCalculated == phRes.calculated /\ phRes.rates # <<>>

\* the rate of a level with the yield evaluated at air density n_air
RateWithAirDensity(level, n_air) ==
    LET grid == PhGrid(NumberOfWavelengths(ph.input.radiator_state[1]))
        temperature == phRes.temperatures[level].value
        sigma == CrossSectionAt(grid, temperature)
        phi == QuantumYieldAt(grid, temperature, n_air)
        flux == TotalActinicFlux(phRes.field, level)
    IN  SumSeq([j \in 1..Len(flux) |->
                   QMul(QMul(QMul(flux[j], sigma[j]), phi[j]), QAbs(grid.deltas[j]))])

\* C22: for each level the integration evaluates the quantum yield with that
\* level's air density, so a density-dependent yield receives the model's
\* air-density profile value for the level being integrated.
C22_YieldAtLevelAirDensity ==
    RatesCalculated /\ ph.air_density_profile # <<>> =>
        \A level \in 1..Len(phRes.rates) :
            LayerOfLevel(level) <= Len(ph.air_density_profile) =>
                phRes.rates[level]
                    = RateWithAirDensity(level, ph.air_density_profile[LayerOfLevel(level)])

\* What does hold: the yield is evaluated at air density 0 at every level,
\* whatever the air-density profile is.
C22_YieldAtZeroAirDensity ==
    RatesCalculated =>
        \A level \in 1..Len(phRes.rates) :
            phRes.rates[level] = RateWithAirDensity(level, Zero)

\* C23: for each level the integration uses the supplied temperature
\* profile's value for that level, and uses the 298 K fallback only when no
\* profile is supplied: never for some levels of a supplied profile.
C23_TemperatureFromProfile ==
    RatesCalculated =>
        \A level \in 1..Len(phRes.rates) :
            IF ph.temperature_profile = <<>>
            THEN phRes.temperatures[level] = [value |-> Q(298, 1), from_profile |-> FALSE]
            ELSE /\ phRes.temperatures[level].from_profile
                 /\ \E layer \in 1..Len(ph.temperature_profile) :
                       phRes.temperatures[level].value = ph.temperature_profile[layer]

\* What does hold: a level whose layer has an entry in the supplied profile
\* uses that entry, and the other levels use 298 K.
C23_TemperatureWhereProfileReaches ==
    RatesCalculated =>
        \A level \in 1..Len(phRes.rates) :
            IF LayerOfLevel(level) <= Len(ph.temperature_profile)
            THEN phRes.temperatures[level]
                     = [value |-> ph.temperature_profile[LayerOfLevel(level)],
                        from_profile |-> TRUE]
            ELSE phRes.temperatures[level] = [value |-> Q(298, 1), from_profile |-> FALSE]


\* every edge strictly below the next, or every edge strictly above the next
StrictlyMonotone(edges) ==
    \/ \A i \in 1..(Len(edges) - 1) : QLess(edges[i], edges[i + 1])
    \/ \A i \in 1..(Len(edges) - 1) : QLess(edges[i + 1], edges[i])

FindCellCalled == gdOp.op \in {"FindCell", "MutableGrid::FindCell"}

\* C24: when v equals an internal edge k (0 < k < n_cells) of a Grid or a
\* MutableGrid, FindCell(v) returns the upper of the two touching cells, the
\* later index k, for ascending and for descending grids alike.
C24_InternalEdgeUpperCell ==
    FindCellCalled /\ StrictlyMonotone(gdOp.edges) =>
        \A k \in 1..(Len(gdOp.edges) - 2) :
            gdOp.value = gdOp.edges[k + 1] => gdOp.result = <<k>>

\* FindCell at internal edge 1 of a descending grid with three cells returned
\* cell 1
C24_Witness ==
    /\ FindCellCalled
    /\ Len(gdOp.edges) = 4
    /\ QLess(gdOp.edges[2], gdOp.edges[1])
    /\ StrictlyMonotone(gdOp.edges)
    /\ gdOp.value = gdOp.edges[2]
    /\ gdOp.result = <<1>>


\* a Calculate that returned, after at least one albedo setter was called
CalculatedAfterAlbedoCall == CalculateCalled /\ ~tmOp.threw /\ tmAlbedo.op # "none"

\* C25: after any sequence of SetSurfaceAlbedo and SetSurfaceAlbedoSpectrum
\* calls the surface albedo the next Calculate uses is the one of the most
\* recent call: the uniform value at every wavelength after SetSurfaceAlbedo,
\* the given spectrum after SetSurfaceAlbedoSpectrum.
C25_MostRecentAlbedoUsed ==
    CalculatedAfterAlbedoCall =>
        tmOp.surface_albedo
            = IF tmAlbedo.op = "SetSurfaceAlbedo"
              THEN [j \in 1..TmWavelengths |-> tmAlbedo.albedo]
              ELSE tmAlbedo.albedo_spectrum

\* C25 as it holds: the same, except that an empty spectrum given to
\* SetSurfaceAlbedoSpectrum selects the uniform value config_ holds, the one
\* of the last SetSurfaceAlbedo or the default.
C25_MostRecentAlbedoUnlessEmpty ==
    CalculatedAfterAlbedoCall =>
        tmOp.surface_albedo
            = IF tmAlbedo.op = "SetSurfaceAlbedo"
              THEN [j \in 1..TmWavelengths |-> tmAlbedo.albedo]
              ELSE IF tmAlbedo.albedo_spectrum # <<>> THEN tmAlbedo.albedo_spectrum
              ELSE [j \in 1..TmWavelengths |-> tm.config.surface_albedo]

\* Calculate used the spectrum of a SetSurfaceAlbedoSpectrum call that came
\* after a SetSurfaceAlbedo call: config_ still holds that call's uniform
\* value and the solver was handed the spectrum
C25_Witness ==
    /\ CalculatedAfterAlbedoCall
    /\ tmAlbedo.op = "SetSurfaceAlbedoSpectrum"
    /\ tmAlbedo.albedo_spectrum = <<One, Zero>>
    /\ tm.config.surface_albedo = Two
    /\ tmOp.surface_albedo = <<One, Zero>>
    /\ tmOut.radiation_field # EmptyField


-----------------------------------------------------------------------------
\* the call that just ended was an UpdateAll left by an exception
UpdateAllThrew == rwOp'.op = "UpdateAll" /\ rwOp'.outcome = "threw"

\* C27: UpdateAll is all-or-nothing: when it fails because one radiator's
\* UpdateState throws, no radiator's stored state has changed and
\* CombinedState afterwards equals CombinedState before the call.
C27_UpdateAllAllOrNothing ==
    [][UpdateAllThrew => rw' = rw /\ CombinedState(rw') = CombinedState(rw)]_vars

\* what the loop of UpdateAll does when it fails: the radiators stay in place
\* under their names, and some radiator keeps the state it had before the call
C27_FailedUpdateAllKeepsRadiators ==
    [][UpdateAllThrew =>
          /\ Len(rw') = Len(rw)
          /\ \A i \in 1..Len(rw) : rw'[i].name = rw[i].name
          /\ \E i \in 1..Len(rw) : rw'[i].state = rw[i].state]_vars


-----------------------------------------------------------------------------
\* entity e carries this name and these units
NamedAs(e, name, units) == e.name = name /\ e.units = units

\* the warehouse holds an entity with this name and these units
Holds(w, name, units) == \E i \in 1..Len(w.items) : NamedAs(w.items[i], name, units)

\* C26: warehouse keys identify (name, units) pairs one-to-one: Add refuses an
\* entity only when one with the same name and units is held, and Exists,
\* Get(name, units) and GetHandle answer for an entity with exactly that name
\* and those units, also when a name or units string contains '|'.
C26_KeysOneToOne ==
    /\ (whRes.op = "Add" /\ ~whRes.result.ok)
          => Holds(wh, whRes.arg.name, whRes.arg.units)
    /\ \A s \in SpecPool :
          /\ Exists(wh, s.name, s.units) => Holds(wh, s.name, s.units)
          /\ GetByName(wh, s.name, s.units).ok
                => NamedAs(GetByName(wh, s.name, s.units).value, s.name, s.units)
          /\ GetHandle(wh, s.name, s.units).valid
                => NamedAs(GetByHandle(wh, GetHandle(wh, s.name, s.units)).value,
                           s.name, s.units)

\* what the key map does give: the entity found for (name, units) is the one
\* whose Key() is the string name|units, and Add refuses exactly the entities
\* whose Key() is held
C26_LookupByKeyString ==
    /\ (whRes.op = "Add" /\ ~whRes.result.ok)
          => \E i \in 1..Len(wh.items) : Key(wh.items[i]) = Key(whRes.arg)
    /\ \A s \in SpecPool :
          /\ Exists(wh, s.name, s.units)
                <=> \E i \in 1..Len(wh.items) : Key(wh.items[i]) = Key(s)
          /\ GetByName(wh, s.name, s.units).ok
                => Key(GetByName(wh, s.name, s.units).value) = Key(s)
          /\ GetHandle(wh, s.name, s.units).valid
                => Key(GetByHandle(wh, GetHandle(wh, s.name, s.units)).value) = Key(s)


-----------------------------------------------------------------------------
\* C28: reaction names in a ModelOutput are unique, and the J value of every
\* registered reaction is retrievable by its name: GetPhotolysisRate(name,
\* level) returns the rate of that reaction, not of another one registered
\* under the same name.
C28_RatesRetrievableByName ==
    LET results == mo.output.photolysis_rates
    IN  /\ \A i, k \in 1..Len(results) :
              i # k => results[i].reaction_name # results[k].reaction_name
        /\ \A i \in 1..Len(results) : \A level \in 1..Len(results[i].rates) :
              GetPhotolysisRate(mo.output, results[i].reaction_name, level)
                  = Returned(results[i].rates[level])

\* what GetPhotolysisRate does return: the rate of the first reaction
\* registered under the name
C28_FirstRegisteredRetrieved ==
    LET results == mo.output.photolysis_rates
    IN  \A i \in 1..Len(results) : \A level \in 1..Len(results[i].rates) :
            (\A k \in 1..(i - 1) : results[k].reaction_name # results[i].reaction_name)
                => GetPhotolysisRate(mo.output, results[i].reaction_name, level)
                     = Returned(results[i].rates[level])

\* C29: band integration is additive over adjacent bands: for every level and
\* a < b < c, the band a..b plus the band b..c is the band a..c, so that the
\* UV-B and UV-A values sum to the band 280..400 nm.
C29_BandsAdditive ==
    \A level \in MoLevels :
        /\ \A a, b, c \in MoWavelengths :
              (QLess(a, b) /\ QLess(b, c))
                  => QAdd(GetBandActinicFlux(mo.output, level, a, b),
                          GetBandActinicFlux(mo.output, level, b, c))
                       = GetBandActinicFlux(mo.output, level, a, c)
        /\ QAdd(GetUVBActinicFlux(mo.output, level), GetUVAActinicFlux(mo.output, level))
              = GetBandActinicFlux(mo.output, level, Q(280, 1), Q(400, 1))

\* no cell of the wavelength grid is centred on wl
NoMidpointAt(wavelength_grid, wl) ==
    \A i \in 1..Len(wavelength_grid.midpoints) : wavelength_grid.midpoints[i] # wl

\* the bands are additive where no cell is centred on the common limit
C29_AdditiveOffMidpoints ==
    \A level \in MoLevels : \A a, b, c \in MoWavelengths :
        (QLess(a, b) /\ QLess(b, c) /\ NoMidpointAt(mo.output.wavelength_grid, b))
            => QAdd(GetBandActinicFlux(mo.output, level, a, b),
                    GetBandActinicFlux(mo.output, level, b, c))
                 = GetBandActinicFlux(mo.output, level, a, c)

====
